---- MODULE Spec2Model ----
(***************************************************************************)
(* The toast registry of react-native-sonner (ToastStateManager, state.ts) *)
(* as a state machine: the active list, the dismissed-id cache, the three  *)
(* subscriber sets, the id counter and the promise calls in flight.        *)
(***************************************************************************)
EXTENDS Integers, Sequences, FiniteSets, TLC

VARIABLES
    toasts,             \* ToastStateManager.toasts: the active list, in insertion order
    dismissedToasts,    \* ToastStateManager.dismissedToasts: Map id -> timestamp, as the
                        \* sequence of its entries in Map insertion order
    subscribers,        \* the create channel's callbacks
    updateSubscribers,  \* the update channel's callbacks
    dismissSubscribers, \* the dismiss channel's callbacks
    toastCount,         \* the module-level counter of generateId
    now,                \* what Date.now() returns
    handles,            \* the unsubscribe closures the callers hold: the channel and the
                        \* callback of each, and whether it has been called already
    pending,            \* the promise() call whose work has not settled yet: << >> when
                        \* there is none, else <<call>>; the model follows one such call
                        \* at a time
    display,            \* the display surface (Toaster) and its Toast components: its
                        \* props, the toasts it shows and their auto-dismiss timers;
                        \* for a caller of getToasts, the array it holds
    last                \* the last registry call: its arguments, what it returned,
                        \* the events it published, the onDismiss callbacks it invoked,
                        \* and the registry's state as its subscribers saw it

vars == <<toasts, dismissedToasts, subscribers, updateSubscribers, dismissSubscribers,
          handles, toastCount, now, pending, display, last>>

----------------------------------------------------------------------------
(* Bounds of the model *)

MaxToasts == 2      \* create appends only while the active list is shorter than this
MaxGen == 1         \* number of generated ids
MaxTime == 1        \* the clock stops advancing here

(* Program constants *)

DISMISSED_CACHE_MAX_SIZE == 100
DISMISSED_CACHE_CLEANUP_THRESHOLD == 50
Infinity == 1000000     \* Number.POSITIVE_INFINITY: above every finite duration

----------------------------------------------------------------------------
(* Values.  A JavaScript object is a record holding exactly the keys it has.  *)
(* A value that may be undefined is a sequence: << >> is undefined, <<v>> is  *)
(* the value v.  A toast's id, type, title and createdAt are always defined   *)
(* and are stored bare; ids are tuples, so that caller-supplied and generated *)
(* ids are values of one kind.                                                *)

Undefined == << >>
Some(v) == <<v>>

CallerIds == {<<"id", 1>>}
Callbacks == {"s1", "s2"}
Channels == {"create", "update", "dismiss"}

\* o?.key
Get(o, key) == IF key \in DOMAIN o THEN o[key] ELSE Undefined

\* { ...base, ...over }: a key of `over` wins whenever `over` has it, even when
\* its value is undefined
Merge(base, over) ==
    [k \in (DOMAIN base) \cup (DOMAIN over) |->
        IF k \in DOMAIN over THEN over[k] ELSE base[k]]

\* a call made without an options argument
NoOptions == << >>

\* no Toaster is mounted
NotMounted == [mounted |-> FALSE]

----------------------------------------------------------------------------
(* Helpers over the active list and the cache *)

\* this.toasts.findIndex((t) => t.id === id), 1-based, 0 for -1
FindIndex(ts, id) ==
    IF \E i \in 1..Len(ts) : ts[i].id = id
    THEN CHOOSE i \in 1..Len(ts) : ts[i].id = id /\ \A j \in 1..(i-1) : ts[j].id # id
    ELSE 0

\* this.toasts.filter((t) => t.id !== id)
FilterOut(ts, id) == SelectSeq(ts, LAMBDA t : t.id # id)

ActiveIds(ts) == {ts[i].id : i \in 1..Len(ts)}

\* this.dismissedToasts.has(id)
CacheHas(cache, id) == \E i \in 1..Len(cache) : cache[i].id = id

CacheIds(cache) == {cache[i].id : i \in 1..Len(cache)}

\* this.dismissedToasts.set(id, t): a key already in the Map keeps its place
CacheSet(cache, id, t) ==
    IF CacheHas(cache, id)
    THEN [i \in 1..Len(cache) |->
            IF cache[i].id = id THEN [id |-> id, ts |-> t] ELSE cache[i]]
    ELSE Append(cache, [id |-> id, ts |-> t])

\* generateId(): `sonner-${toastCount}-${Date.now()}`
generateId(count, t) == <<"sonner", count, t>>

----------------------------------------------------------------------------
(* Publishing.  An event is one forEach over a channel's subscriber set: the *)
(* channel, the argument, and the callbacks it was delivered to.             *)

\* publish(toast)
publish(toast) == [channel |-> "create", arg |-> toast, to |-> subscribers]

\* publishUpdate(toast)
publishUpdate(toast) == [channel |-> "update", arg |-> toast, to |-> updateSubscribers]

\* publishDismiss(toastId), toastId undefined for dismiss-all
publishDismiss(toastId) == [channel |-> "dismiss", arg |-> toastId, to |-> dismissSubscribers]

\* the fields of the registry at the moment a call runs its publish statement
Seen(ts, cache) == [toasts |-> ts, dismissedToasts |-> cache]

----------------------------------------------------------------------------
(* create *)

\* const id = options?.id ?? generateId()
NeedsGeneratedId(options) == Get(options, "id") = Undefined

ResolveId(options) ==
    IF NeedsGeneratedId(options) THEN generateId(toastCount + 1, now) ELSE options.id[1]

\* const toast = { ...options, id, type, title, createdAt: Date.now() }
BuildToast(options, id, type, title, t) ==
    Merge(options, [id |-> id, type |-> type, title |-> title, createdAt |-> t])

PutToastAlwaysPush(ts, toast) == Append(ts, toast)

\* the active list after the update-or-push of create
PutToast(ts, toast) ==
    LET existingIndex == FindIndex(ts, toast.id)
    IN  IF existingIndex > 0 THEN [ts EXCEPT ![existingIndex] = toast]
        ELSE Append(ts, toast)

PutEventsBoth(ts, toast) == <<publish(toast), publishUpdate(toast)>>

PutEventsAlwaysCreate(ts, toast) == <<publish(toast)>>

\* the event create publishes for the toast: update for an id already active
PutEvents(ts, toast) ==
    IF FindIndex(ts, toast.id) > 0 THEN <<publishUpdate(toast)>> ELSE <<publish(toast)>>

createWithoutCacheCheck(title, type, options) ==
    LET id == ResolveId(options)
        toast == BuildToast(options, id, type, title, now)
    IN  [id |-> id, toasts |-> PutToast(toasts, toast), events |-> PutEvents(toasts, toast)]

\* create(title, type, options) as a whole: the id it returns, the active list and the
\* events it leaves
create(title, type, options) ==
    LET id == ResolveId(options)
        toast == BuildToast(options, id, type, title, now)
    IN  IF CacheHas(dismissedToasts, id)
        THEN [id |-> id, toasts |-> toasts, events |-> << >>]
        ELSE [id |-> id, toasts |-> PutToast(toasts, toast),
              events |-> PutEvents(toasts, toast)]

\* the model's bounds on a create call: ids left to generate, room in the list
CreateInBounds(options) ==
    /\ NeedsGeneratedId(options) => toastCount < MaxGen
    /\ LET id == ResolveId(options)
       IN  (~CacheHas(dismissedToasts, id) /\ FindIndex(toasts, id) = 0)
              => Len(toasts) < MaxToasts

NextCount(options) == IF NeedsGeneratedId(options) THEN toastCount + 1 ELSE toastCount

CreateCall(title, type, options) ==
    /\ CreateInBounds(options)
    /\ LET r == create(title, type, options)
       IN  /\ toasts' = r.toasts
           /\ last' = [op |-> "create", title |-> title, type |-> type,
                       options |-> options, id |-> r.id, ret |-> r.id,
                       events |-> r.events, called |-> << >>,
                       seen |-> Seen(r.toasts, dismissedToasts)]
    /\ toastCount' = NextCount(options)
    /\ UNCHANGED <<dismissedToasts, subscribers, updateSubscribers, dismissSubscribers,
                   handles, now, pending>>

\* create() with no display surface mounted
Create(title, type, options) == CreateCall(title, type, options) /\ UNCHANGED display

----------------------------------------------------------------------------
(* update *)

MergeUpdateSpreadOnly(existingToast, options, toastId) ==
    LET merged == Merge(existingToast, options)
    IN  Merge(merged,
              [id |-> IF Get(options, "id") = Undefined THEN existingToast.id
                      ELSE options.id[1],
               type |-> IF Get(options, "type") = Undefined THEN existingToast.type
                        ELSE options.type[1],
               title |-> IF Get(options, "title") = Undefined THEN existingToast.title
                         ELSE options.title[1],
               createdAt |-> IF Get(options, "createdAt") = Undefined
                             THEN existingToast.createdAt ELSE options.createdAt[1]])

\* const updatedToast = { ...existingToast, ...options, id: toastId,
\*   type: options.type ?? existingToast.type, title: options.title ?? existingToast.title,
\*   createdAt: existingToast.createdAt }
MergeUpdate(existingToast, options, toastId) ==
    Merge(Merge(existingToast, options),
          [id |-> toastId,
           type |-> IF Get(options, "type") = Undefined THEN existingToast.type
                    ELSE options.type[1],
           title |-> IF Get(options, "title") = Undefined THEN existingToast.title
                     ELSE options.title[1],
           createdAt |-> existingToast.createdAt])

updateOrInsert(ts, toastId, options) ==
    LET index == FindIndex(ts, toastId)
    IN  IF index = 0
        THEN LET t == MergeUpdate([id |-> toastId, type |-> "default", title |-> "",
                                   createdAt |-> now], options, toastId)
             IN  [ret |-> TRUE, toasts |-> Append(ts, t), events |-> <<publishUpdate(t)>>]
        ELSE LET updatedToast == MergeUpdate(ts[index], options, toastId)
             IN  [ret |-> TRUE, toasts |-> [ts EXCEPT ![index] = updatedToast],
                  events |-> <<publishUpdate(updatedToast)>>]

\* update(toastId, options) as a whole
update(ts, toastId, options) ==
    LET index == FindIndex(ts, toastId)
    IN  IF index = 0
        THEN [ret |-> FALSE, toasts |-> ts, events |-> << >>]
        ELSE LET updatedToast == MergeUpdate(ts[index], options, toastId)
             IN  [ret |-> TRUE, toasts |-> [ts EXCEPT ![index] = updatedToast],
                  events |-> <<publishUpdate(updatedToast)>>]

UpdateCall(toastId, options) ==
    /\ LET r == update(toasts, toastId, options)
       IN  /\ toasts' = r.toasts
           /\ last' = [op |-> "update", id |-> toastId, options |-> options,
                       ret |-> r.ret, events |-> r.events, called |-> << >>,
                       seen |-> Seen(r.toasts, dismissedToasts)]
    /\ UNCHANGED <<dismissedToasts, subscribers, updateSubscribers, dismissSubscribers,
                   handles, toastCount, now, pending>>

\* update() with no display surface mounted
Update(toastId, options) == UpdateCall(toastId, options) /\ UNCHANGED display

----------------------------------------------------------------------------
(* dismiss *)

\* entries.sort((a, b) => a[1] - b[1]): by timestamp, oldest first; the sort is stable,
\* so it is the concatenation, by rising timestamp, of the entries of each timestamp in
\* their Map order
RECURSIVE SortByStamps(_, _)
SortByStamps(entries, stamps) ==
    IF stamps = {} THEN << >>
    ELSE LET oldest == CHOOSE m \in stamps : \A n \in stamps : m <= n
         IN  SelectSeq(entries, LAMBDA e : e.ts = oldest)
                \o SortByStamps(entries, stamps \ {oldest})

SortOldestFirst(entries) ==
    SortByStamps(entries, {entries[i].ts : i \in 1..Len(entries)})

RECURSIVE SortByStampsFalling(_, _)
SortByStampsFalling(entries, stamps) ==
    IF stamps = {} THEN << >>
    ELSE LET newest == CHOOSE m \in stamps : \A n \in stamps : m >= n
         IN  SelectSeq(entries, LAMBDA e : e.ts = newest)
                \o SortByStampsFalling(entries, stamps \ {newest})

cleanupNewestFirst(cache) ==
    IF Len(cache) <= DISMISSED_CACHE_MAX_SIZE THEN cache
    ELSE LET entries == SortByStampsFalling(cache, {cache[i].ts : i \in 1..Len(cache)})
             toRemove == {entries[i].id : i \in 1..DISMISSED_CACHE_CLEANUP_THRESHOLD}
         IN  SelectSeq(cache, LAMBDA e : e.id \notin toRemove)

cleanupInsertionOrder(cache) ==
    IF Len(cache) <= DISMISSED_CACHE_MAX_SIZE THEN cache
    ELSE SubSeq(cache, DISMISSED_CACHE_CLEANUP_THRESHOLD + 1, Len(cache))

\* cleanupDismissedCache(): nothing up to DISMISSED_CACHE_MAX_SIZE entries; beyond it
\* the entries are sorted, and the first DISMISSED_CACHE_CLEANUP_THRESHOLD of them
\* (entries.slice(0, DISMISSED_CACHE_CLEANUP_THRESHOLD)) are deleted from the Map
cleanupDismissedCache(cache) ==
    IF Len(cache) <= DISMISSED_CACHE_MAX_SIZE THEN cache
    ELSE LET entries == SortOldestFirst(cache)
             toRemove == {entries[i].id : i \in 1..DISMISSED_CACHE_CLEANUP_THRESHOLD}
         IN  SelectSeq(cache, LAMBDA e : e.id \notin toRemove)

\* for (const toast of this.toasts) this.dismissedToasts.set(toast.id, now): the
\* entries of the ids already cached are restamped in place, the other ids are
\* appended in list order (the loop, written without recursion)
SetAll(cache, ts, t) ==
    LET active == ActiveIds(ts)
        cached == CacheIds(cache)
        restamped == [i \in 1..Len(cache) |->
                        IF cache[i].id \in active THEN [id |-> cache[i].id, ts |-> t]
                        ELSE cache[i]]
        fresh == SelectSeq(ts, LAMBDA x : x.id \notin cached)
        marked == [k \in 1..Len(fresh) |->
                     [id |-> fresh[k].id, ts |-> t,
                      again |-> \E j \in 1..(k - 1) : fresh[j].id = fresh[k].id]]
        once == SelectSeq(marked, LAMBDA e : ~e.again)
    IN  restamped \o [k \in 1..Len(once) |-> [id |-> once[k].id, ts |-> t]]

\* toast.onDismiss?.(toast): the invocation, if the toast has the callback
CallOnDismiss(toast) ==
    IF Get(toast, "onDismiss") = Undefined THEN << >>
    ELSE <<[callback |-> toast.onDismiss[1], arg |-> toast]>>

\* for (const toast of this.toasts) toast.onDismiss?.(toast)
CallAll(ts) ==
    LET having == SelectSeq(ts, LAMBDA x : Get(x, "onDismiss") # Undefined)
    IN  [i \in 1..Len(having) |-> [callback |-> having[i].onDismiss[1], arg |-> having[i]]]

\* a variant that leaves the list as it is
DismissToastsKeepsAll(ts, toastId) == ts

\* the active list after dismiss(toastId)
DismissToasts(ts, toastId) ==
    IF toastId = Undefined THEN << >> ELSE FilterOut(ts, toastId[1])

\* the cache after dismiss(toastId), before the cleanup
DismissRecord(cache, ts, toastId, t) ==
    IF toastId = Undefined THEN SetAll(cache, ts, t) ELSE CacheSet(cache, toastId[1], t)

DismissCallsEveryToast(ts, toastId) == CallAll(ts)

\* the onDismiss callbacks dismiss(toastId) invokes
DismissCalls(ts, toastId) ==
    IF toastId = Undefined THEN CallAll(ts)
    ELSE LET i == FindIndex(ts, toastId[1])
         IN  IF i > 0 THEN CallOnDismiss(ts[i]) ELSE << >>

DismissEventsIfActive(ts, toastId) ==
    IF toastId # Undefined /\ FindIndex(ts, toastId[1]) = 0 THEN << >>
    ELSE <<publishDismiss(toastId)>>

\* this.publishDismiss(toastId), whatever the branch taken
DismissEvents(ts, toastId) == <<publishDismiss(toastId)>>

\* a promise() call still pending remembers that its toast was dismissed
NoteDismissed(calls, ts, toastId) ==
    [i \in 1..Len(calls) |->
        IF /\ FindIndex(ts, calls[i].id) > 0
           /\ (toastId = Undefined \/ toastId = Some(calls[i].id))
        THEN [calls[i] EXCEPT !.dismissed = TRUE]
        ELSE calls[i]]

\* dismiss(toastId); toastId is Undefined for dismiss()
DismissCall(toastId) ==
    /\ toasts' = DismissToasts(toasts, toastId)
    /\ dismissedToasts' =
          cleanupDismissedCache(DismissRecord(dismissedToasts, toasts, toastId, now))
    /\ last' = [op |-> "dismiss", id |-> toastId, ret |-> Undefined,
                events |-> DismissEvents(toasts, toastId),
                called |-> DismissCalls(toasts, toastId),
                evicted |-> CacheIds(DismissRecord(dismissedToasts, toasts, toastId, now))
                               \ CacheIds(dismissedToasts'),
                seen |-> Seen(DismissToasts(toasts, toastId),
                              DismissRecord(dismissedToasts, toasts, toastId, now))]
    /\ pending' = NoteDismissed(pending, toasts, toastId)
    /\ UNCHANGED <<subscribers, updateSubscribers, dismissSubscribers, handles,
                   toastCount, now>>

\* dismiss() with no display surface mounted
Dismiss(toastId) == DismissCall(toastId) /\ UNCHANGED display

clearOldestEntry(cache) == IF cache = << >> THEN cache ELSE Tail(cache)

\* this.dismissedToasts.clear()
clearDismissedHistory(cache) == << >>

\* clearDismissedHistory(); `cleared` keeps the ids the cache held
ClearDismissedHistory ==
    /\ dismissedToasts' = clearDismissedHistory(dismissedToasts)
    /\ last' = [op |-> "clearDismissedHistory", ret |-> Undefined,
                events |-> << >>, called |-> << >>,
                cleared |-> CacheIds(dismissedToasts)]
    /\ UNCHANGED <<toasts, subscribers, updateSubscribers, dismissSubscribers, handles,
                   toastCount, now, pending>>
    /\ UNCHANGED display

----------------------------------------------------------------------------
(* promise *)

\* a variant in which the caller's options win
LoadingOptionsCallerWins(options) ==
    Merge([duration |-> Some(Infinity), dismissible |-> Some(FALSE)], options)

\* the first part of promise(promise, data, options), up to the await:
\* const id = this.create(data.loading, "loading",
\*                        { ...options, duration: Infinity, dismissible: false })
LoadingOptions(options) ==
    Merge(options, [duration |-> Some(Infinity), dismissible |-> Some(FALSE)])

\* what the work given to promise() does: the value it resolves with, the failure it
\* rejects with or, for a function, throws when called
WorkResult == "r"
WorkError == "boom"

\* the promise argument: a promise already pending, a function that returns one, or a
\* function that throws when called
Works == {"promise", "function", "throws"}

\* the part of promise(promise, data, options) up to the await: the create, then
\* const promiseToExecute = typeof promise === "function" ? promise() : promise,
\* which is outside the try: a failure thrown by promise() leaves the async function at
\* once, and the promise it returned is rejected with that failure
PromiseCall(work, data, options) ==
    /\ pending = << >>
    /\ CreateInBounds(LoadingOptions(options))
    /\ LET r == create(data.loading, "loading", LoadingOptions(options))
       IN  /\ toasts' = r.toasts
           /\ pending' = IF work = "throws" THEN << >>
                         ELSE <<[id |-> r.id, work |-> work, data |-> data,
                                 options |-> options, dismissed |-> FALSE]>>
           /\ last' = [op |-> "promise", id |-> r.id, work |-> work, data |-> data,
                       ret |-> Undefined,
                       result |-> IF work = "throws" THEN Some([throw |-> WorkError])
                                  ELSE Undefined,
                       trace |-> << >>,
                       events |-> r.events, called |-> << >>,
                       seen |-> Seen(r.toasts, dismissedToasts)]
    /\ toastCount' = NextCount(LoadingOptions(options))
    /\ UNCHANGED <<dismissedToasts, subscribers, updateSubscribers, dismissSubscribers,
                   handles, now>>

\* promise() with no display surface mounted
Promise(work, data, options) == PromiseCall(work, data, options) /\ UNCHANGED display

\* typeof message === "function" ? message(v) : message, for data.success and
\* data.error: a text is [text |-> ...], a function is [fn |-> ...]
Resolve(message, v) ==
    IF "fn" \in DOMAIN message THEN message.fn[v] ELSE message.text

\* the options of the update made when the work settles:
\* { type, title: message, dismissible: true, duration: options?.duration }
SettleOptions(type, message, options) ==
    [type |-> Some(type), title |-> Some(message), dismissible |-> Some(TRUE),
     duration |-> Get(options, "duration")]

TryBlockKeepsType(ts, p, result) ==
    LET r == update(ts, p.id,
                    [SettleOptions("success", Resolve(p.data.success, result), p.options)
                        EXCEPT !.type = Undefined])
    IN  [toasts |-> r.toasts, events |-> r.events, trace |-> <<"update">>,
         result |-> [ret |-> result]]

\* the try block once the await has given `result`: the update to success, return result
TryBlock(ts, p, result) ==
    LET r == update(ts, p.id,
                    SettleOptions("success", Resolve(p.data.success, result), p.options))
    IN  [toasts |-> r.toasts, events |-> r.events, trace |-> <<"update">>,
         result |-> [ret |-> result]]

CatchBlockSwallows(ts, p, error) ==
    LET r == update(ts, p.id,
                    SettleOptions("error", Resolve(p.data.error, error), p.options))
    IN  [toasts |-> r.toasts, events |-> r.events, trace |-> <<"update">>,
         result |-> [ret |-> Undefined]]

\* the catch block for a rejection with `error`: the update to error, throw error
CatchBlock(ts, p, error) ==
    LET r == update(ts, p.id,
                    SettleOptions("error", Resolve(p.data.error, error), p.options))
    IN  [toasts |-> r.toasts, events |-> r.events, trace |-> <<"update">>,
         result |-> [throw |-> error]]

\* finally { data.finally?.() }
FinallyBlock(res, data) ==
    IF Get(data, "finally") = Undefined THEN res
    ELSE [res EXCEPT !.trace = Append(@, "finally")]

\* the rest of promise() once the work has settled: it runs without another await, the
\* try block for outcome "resolved", the catch block for "rejected", then finally.
\* `result` is how the call ends, `trace` what it called, in order.
PromiseSettleCall(outcome) ==
    /\ pending # << >>
    /\ LET p == pending[1]
           res == FinallyBlock(IF outcome = "resolved"
                               THEN TryBlock(toasts, p, WorkResult)
                               ELSE CatchBlock(toasts, p, WorkError), p.data)
       IN  /\ toasts' = res.toasts
           /\ last' = [op |-> "settle", id |-> p.id, work |-> p.work, data |-> p.data,
                       dismissed |-> p.dismissed,
                       outcome |-> outcome, ret |-> Undefined,
                       result |-> Some(res.result), trace |-> res.trace,
                       events |-> res.events, called |-> << >>,
                       seen |-> Seen(res.toasts, dismissedToasts)]
    /\ pending' = << >>
    /\ UNCHANGED <<dismissedToasts, subscribers, updateSubscribers, dismissSubscribers,
                   handles, toastCount, now>>

\* the settling of promise() with no display surface mounted
PromiseSettle(outcome) == PromiseSettleCall(outcome) /\ UNCHANGED display

----------------------------------------------------------------------------
(* subscriptions *)

\* the closure a subscribe call returns: () => set.delete(callback)
Closure(channel, callback, called) ==
    [channel |-> channel, callback |-> callback, called |-> called]

\* the callbacks of a channel
ChannelSet(channel) ==
    CASE channel = "create" -> subscribers
      [] channel = "update" -> updateSubscribers
      [] channel = "dismiss" -> dismissSubscribers

\* subscribe / subscribeToUpdate / subscribeToDismiss: Set.add, and the closure returned.
\* The caller keeps the closure unless it holds one for this callback and channel that
\* it has not called yet.
Subscribe(channel, callback) ==
    /\ subscribers' = IF channel = "create" THEN subscribers \cup {callback}
                      ELSE subscribers
    /\ updateSubscribers' = IF channel = "update" THEN updateSubscribers \cup {callback}
                            ELSE updateSubscribers
    /\ dismissSubscribers' = IF channel = "dismiss" THEN dismissSubscribers \cup {callback}
                             ELSE dismissSubscribers
    /\ handles' = handles \cup {Closure(channel, callback, FALSE)}
    /\ last' = [op |-> "subscribe", channel |-> channel, callback |-> callback,
                ret |-> Undefined, events |-> << >>, called |-> << >>]
    /\ UNCHANGED <<toasts, dismissedToasts, toastCount, now, pending>>
    /\ UNCHANGED display

\* a call of a closure returned by a subscribe, for the first time (called = FALSE) or
\* again: set.delete(callback)
Unsubscribe(channel, callback, called) ==
    /\ Closure(channel, callback, called) \in handles
    /\ subscribers' = IF channel = "create" THEN subscribers \ {callback}
                      ELSE subscribers
    /\ updateSubscribers' = IF channel = "update" THEN updateSubscribers \ {callback}
                            ELSE updateSubscribers
    /\ dismissSubscribers' = IF channel = "dismiss" THEN dismissSubscribers \ {callback}
                             ELSE dismissSubscribers
    /\ handles' = (handles \ {Closure(channel, callback, called)})
                     \cup {Closure(channel, callback, TRUE)}
    /\ last' = [op |-> "unsubscribe", channel |-> channel, callback |-> callback,
                again |-> called, removed |-> callback \in ChannelSet(channel),
                ret |-> Undefined, events |-> << >>, called |-> << >>]
    /\ UNCHANGED <<toasts, dismissedToasts, toastCount, now, pending>>
    /\ UNCHANGED display

----------------------------------------------------------------------------
(* the clock *)

\* time passes between two calls; Date.now() never goes back
Tick ==
    /\ now < MaxTime
    /\ now' = now + 1
    /\ UNCHANGED <<toasts, dismissedToasts, subscribers, updateSubscribers,
                   dismissSubscribers, handles, toastCount, pending, last>>
    /\ UNCHANGED display

----------------------------------------------------------------------------
(* Inputs *)

\* what a caller passes for the id
IdChoices == {NoOptions} \cup {[id |-> Some(i)] : i \in CallerIds}

\* title, type and the other options of a create call
Payloads ==
    { [title |-> "a", type |-> "default", options |-> NoOptions],
      [title |-> "b", type |-> "info",
       options |-> [onDismiss |-> Some("d1"), duration |-> Some(4000)]] }

\* the partial fields of an update call, carrying an id and a createdAt too
UpdateOptions ==
    { [id |-> Some(<<"id", 2>>), createdAt |-> Some(99), type |-> Undefined,
       title |-> Some("c"), dismissible |-> Some(FALSE)] }

\* a function for data.success and data.error: the title it makes of the value
Format ==
    [v \in {WorkResult, WorkError} |-> IF v = WorkResult THEN "done: r" ELSE "failed: boom"]

\* texts and no finally
StaticData ==
    [loading |-> "wait", success |-> [text |-> "ok"], error |-> [text |-> "failed"]]

\* functions and a finally callback
FunctionData ==
    [loading |-> "wait", success |-> [fn |-> Format], error |-> [fn |-> Format],
     finally |-> Some("f1")]

PromiseDatas == {StaticData, FunctionData}

PromiseOptions ==
    {NoOptions,
     [id |-> Some(<<"id", 1>>), duration |-> Some(4000), dismissible |-> Some(TRUE)]}

\* the promise calls made: a pending promise with texts and a generated id; a function,
\* one that returns a promise and one that throws, with functions, a finally callback
\* and the caller's id
PromiseCalls ==
    {[work |-> "promise", data |-> StaticData, options |-> NoOptions]}
      \cup {[work |-> w, data |-> FunctionData, options |-> o] :
                w \in {"function", "throws"}, o \in PromiseOptions \ {NoOptions}}

\* the ids a caller can name: its own, and those the registry has returned
KnownIds == CallerIds \cup ActiveIds(toasts) \cup CacheIds(dismissedToasts)
               \cup {pending[i].id : i \in 1..Len(pending)}

----------------------------------------------------------------------------
(* The registry *)

Init ==
    /\ toasts = << >>
    /\ dismissedToasts = << >>
    /\ subscribers = {}
    /\ updateSubscribers = {}
    /\ dismissSubscribers = {}
    /\ handles = {}
    /\ toastCount = 0
    /\ now = 0
    /\ pending = << >>
    /\ display = NotMounted
    /\ last = [op |-> "none", ret |-> Undefined, events |-> << >>, called |-> << >>]

\* the synchronous calls of the registry
Next ==
    \/ \E p \in Payloads, c \in IdChoices : Create(p.title, p.type, Merge(p.options, c))
    \/ \E id \in KnownIds, o \in UpdateOptions : Update(id, o)
    \/ \E id \in KnownIds : Dismiss(Some(id))
    \/ Dismiss(Undefined)
    \/ ClearDismissedHistory
    \/ Tick

Spec == Init /\ [][Next]_vars

\* the registry with a promise call, the other calls on one payload and on ids the
\* caller names
NextPromise ==
    \/ \E c \in PromiseCalls : Promise(c.work, c.data, c.options)
    \/ \E outcome \in {"resolved", "rejected"} : PromiseSettle(outcome)
    \/ \E id \in CallerIds : Create("a", "default", [id |-> Some(id)])
    \/ \E id \in KnownIds, o \in UpdateOptions : Update(id, o)
    \/ \E id \in KnownIds : Dismiss(Some(id))
    \/ Dismiss(Undefined)
    \/ ClearDismissedHistory
    \/ Tick

SpecPromise == Init /\ [][NextPromise]_vars

\* the subscribe calls made: both callbacks on the dismiss channel, one of them on the
\* other two
Subscriptions ==
    {<<"dismiss", cb>> : cb \in Callbacks} \cup {<<"create", "s1">>, <<"update", "s1">>}

\* the registry with subscribers coming and going, the calls on one id
NextSubs ==
    \/ \E sub \in Subscriptions : Subscribe(sub[1], sub[2])
    \/ \E h \in handles : Unsubscribe(h.channel, h.callback, h.called)
    \/ \E id \in CallerIds : Create("a", "default", [id |-> Some(id)])
    \/ \E id \in CallerIds, o \in UpdateOptions : Update(id, o)
    \/ \E id \in CallerIds : Dismiss(Some(id))
    \/ Dismiss(Undefined)

SpecSubs == Init /\ [][NextSubs]_vars

----------------------------------------------------------------------------
(* The registry with many toasts: the states in which the cache cleanup runs.  *)
(* It starts after `active` create calls with the ids 1..active, each with an  *)
(* onDismiss callback, and `cached` dismiss calls of other ids, all made at    *)
(* time 0, with one callback subscribed to each channel.                       *)

BulkId(n) == <<"id", n>>

BulkToasts(active) ==
    [n \in 1..active |->
        BuildToast([onDismiss |-> Some("d1")], BulkId(n), "default", "a", 0)]

BulkCache(cached) == [n \in 1..cached |-> [id |-> BulkId(1000 + n), ts |-> 0]]

\* how many toasts are active at the start: few, or enough that dismissing them all
\* fills the cache beyond its maximum size, or beyond its maximum size by more than
\* one cleanup removes
BulkActive ==
    {3, DISMISSED_CACHE_MAX_SIZE + 1,
     DISMISSED_CACHE_MAX_SIZE + DISMISSED_CACHE_CLEANUP_THRESHOLD + 1}

\* how many ids are cached at the start
BulkCached ==
    {0, DISMISSED_CACHE_CLEANUP_THRESHOLD, DISMISSED_CACHE_MAX_SIZE}

\* the ids the calls name: two active at the start, one cached at the start
BulkIds == {BulkId(1), BulkId(2), BulkId(1001)}

InitBulk ==
    /\ \E active \in BulkActive : toasts = BulkToasts(active)
    /\ \E cached \in BulkCached : dismissedToasts = BulkCache(cached)
    /\ subscribers = {"s1"}
    /\ updateSubscribers = {"s1"}
    /\ dismissSubscribers = {"s1"}
    /\ handles = {Closure(ch, "s1", FALSE) : ch \in Channels}
    /\ toastCount = 0
    /\ now = 0
    /\ pending = << >>
    /\ display = NotMounted
    /\ last = [op |-> "none", ret |-> Undefined, events |-> << >>, called |-> << >>]

NextBulk ==
    \/ Dismiss(Undefined)
    \/ \E id \in BulkIds : Dismiss(Some(id))
    \/ \E id \in BulkIds \ {BulkId(2)} : Create("a", "default", [id |-> Some(id)])
    \/ Tick

SpecBulk == InitBulk /\ [][NextBulk]_vars

----------------------------------------------------------------------------
(* The display surface: which toasts a Toaster shows, and in what order *)

\* a Position is "top-left" ... "bottom-right": the edge and the alignment
StartsWith(position, edge) == position[1] = edge

\* const filteredToasts = !toasterId ? toasts
\*    : toasts.filter((t) => t.toasterId === toasterId || t.toasterId === undefined)
filteredToasts(ts, toasterId) ==
    IF toasterId = Undefined \/ toasterId = Some("") THEN ts
    ELSE SelectSeq(ts, LAMBDA t : \/ Get(t, "toasterId") = toasterId
                                  \/ Get(t, "toasterId") = Undefined)

\* [...filteredToasts].sort((a, b) => b.createdAt - a.createdAt): newest first; the sort
\* is stable, so it is the concatenation, by falling createdAt, of the toasts of each
\* createdAt in their list order
RECURSIVE SortByCreatedAt(_, _)
SortByCreatedAt(ts, stamps) ==
    IF stamps = {} THEN << >>
    ELSE LET newest == CHOOSE m \in stamps : \A n \in stamps : m >= n
         IN  SelectSeq(ts, LAMBDA t : t.createdAt = newest)
                \o SortByCreatedAt(ts, stamps \ {newest})

SortNewestFirst(ts) == SortByCreatedAt(ts, {ts[i].createdAt : i \in 1..Len(ts)})

\* sorted.reverse()
Reverse(seq) == [i \in 1..Len(seq) |-> seq[Len(seq) + 1 - i]]

\* the stable sort by rising createdAt
RECURSIVE SortByCreatedAtRising(_, _)
SortByCreatedAtRising(ts, stamps) ==
    IF stamps = {} THEN << >>
    ELSE LET oldest == CHOOSE m \in stamps : \A n \in stamps : m <= n
         IN  SelectSeq(ts, LAMBDA t : t.createdAt = oldest)
                \o SortByCreatedAtRising(ts, stamps \ {oldest})

\* a variant that does not sort
sortedToastsListOrder(filtered, position) ==
    IF StartsWith(position, "bottom") THEN Reverse(filtered) ELSE filtered

\* a variant that sorts oldest first for the bottom instead of reversing
sortedToastsSortsAgain(filtered, position) ==
    IF StartsWith(position, "bottom")
    THEN SortByCreatedAtRising(filtered, {filtered[i].createdAt : i \in 1..Len(filtered)})
    ELSE SortNewestFirst(filtered)

\* const sortedToasts = position.startsWith("bottom") ? sorted.reverse() : sorted
sortedToasts(filtered, position) ==
    IF StartsWith(position, "bottom") THEN Reverse(SortNewestFirst(filtered))
    ELSE SortNewestFirst(filtered)

\* sortedToasts.indexOf(a), 1-based, 0 for -1
IndexOf(seq, a) ==
    IF \E i \in 1..Len(seq) : seq[i] = a
    THEN CHOOSE i \in 1..Len(seq) : seq[i] = a /\ \A j \in 1..(i - 1) : seq[j] # a
    ELSE 0

\* combined.sort((a, b) => sortedToasts.indexOf(a) - sortedToasts.indexOf(b)): stable,
\* by rising index
RECURSIVE SortByIndex(_, _, _)
SortByIndex(combined, sorted, indexes) ==
    IF indexes = {} THEN << >>
    ELSE LET first == CHOOSE m \in indexes : \A n \in indexes : m <= n
         IN  SelectSeq(combined, LAMBDA t : IndexOf(sorted, t) = first)
                \o SortByIndex(combined, sorted, indexes \ {first})

\* t.important as a condition
IsImportant(t) == Get(t, "important") = Some(TRUE)

Max(a, b) == IF a >= b THEN a ELSE b
Min(a, b) == IF a <= b THEN a ELSE b

\* a variant without the final sort by index
visibleToastListUnsorted(sorted, visibleToasts) ==
    IF visibleToasts <= 0 THEN sorted
    ELSE LET important == SelectSeq(sorted, IsImportant)
             regular == SelectSeq(sorted, LAMBDA t : ~IsImportant(t))
             remainingSlots == Max(0, visibleToasts - Len(important))
         IN  important \o SubSeq(regular, 1, Min(remainingSlots, Len(regular)))

\* a variant without the limit
visibleToastListUnlimited(sorted, visibleToasts) == sorted

\* a variant whose limit counts important toasts like the others
visibleToastListCapsAll(sorted, visibleToasts) ==
    IF visibleToasts <= 0 THEN sorted
    ELSE SubSeq(sorted, 1, Min(visibleToasts, Len(sorted)))

\* const visibleToastList: the whole list for visibleToasts <= 0; else every important
\* toast and the first remainingSlots regular ones, put back in the order of sortedToasts
visibleToastList(sorted, visibleToasts) ==
    IF visibleToasts <= 0 THEN sorted
    ELSE LET important == SelectSeq(sorted, IsImportant)
             regular == SelectSeq(sorted, LAMBDA t : ~IsImportant(t))
             remainingSlots == Max(0, visibleToasts - Len(important))
             visibleRegular == SubSeq(regular, 1, Min(remainingSlots, Len(regular)))
             combined == important \o visibleRegular
         IN  SortByIndex(combined, sorted,
                         {IndexOf(sorted, combined[i]) : i \in 1..Len(combined)})

\* what a Toaster with these props renders for the snapshot ts of the active list
Select(ts, toasterId, position, visibleToasts) ==
    visibleToastList(sortedToasts(filteredToasts(ts, toasterId), position), visibleToasts)

\* the props of the Toaster
ToasterIds == {Undefined, Some(""), Some("a")}
Positions == {<<"top", "center">>, <<"bottom", "center">>}
Capacities == {-1, 0, 1, 2}

\* the first render of a Toaster with the given props: the snapshot of useToastState
\* is the active list
Render(toasterId, position, visibleToasts) ==
    /\ ~display.mounted
    /\ display' = [mounted |-> TRUE, toasterId |-> toasterId, position |-> position,
                   visibleToasts |-> visibleToasts,
                   shown |-> Select(toasts, toasterId, position, visibleToasts)]
    /\ UNCHANGED <<toasts, dismissedToasts, subscribers, updateSubscribers,
                   dismissSubscribers, handles, toastCount, now, pending, last>>

\* the number of toasts in the lists the selector is given
MaxListed == 3

\* the createdAt values of those toasts
Stamps == {0, 1}

\* the options that matter to the selector
Routes ==
    {NoOptions, [important |-> Some(TRUE)], [toasterId |-> Some("a")],
     [toasterId |-> Some("b")], [important |-> Some(TRUE), toasterId |-> Some("b")]}

\* the active lists: the n-th toast has the id n
SelectorLists ==
    UNION {[1..n -> {[options |-> o, createdAt |-> t] : o \in Routes, t \in Stamps}] :
              n \in 0..MaxListed}

ListedToasts(choice) ==
    [n \in 1..Len(choice) |->
        BuildToast(choice[n].options, <<"id", n>>, "default", "a", choice[n].createdAt)]

InitSelector ==
    /\ \E choice \in SelectorLists : toasts = ListedToasts(choice)
    /\ dismissedToasts = << >>
    /\ subscribers = {}
    /\ updateSubscribers = {}
    /\ dismissSubscribers = {}
    /\ handles = {}
    /\ toastCount = 0
    /\ now = 0
    /\ pending = << >>
    /\ display = NotMounted
    /\ last = [op |-> "none", ret |-> Undefined, events |-> << >>, called |-> << >>]

NextSelector ==
    \E id \in ToasterIds, position \in Positions, n \in Capacities : Render(id, position, n)

SpecSelector == InitSelector /\ [][NextSelector]_vars

----------------------------------------------------------------------------
(* The display surface: the auto-dismiss timer of each Toast *)

\* const effectiveDuration = toast.duration ?? duration
effectiveDuration(toast, duration) ==
    IF Get(toast, "duration") = Undefined THEN duration ELSE Get(toast, "duration")[1]

\* a variant that leaves the type out
shouldAutoDismissAnyType(toast, duration) ==
    /\ effectiveDuration(toast, duration) > 0
    /\ effectiveDuration(toast, duration) # Infinity

\* const shouldAutoDismiss = effectiveDuration > 0 &&
\*    effectiveDuration !== Number.POSITIVE_INFINITY && toast.type !== "loading"
shouldAutoDismiss(toast, duration) ==
    /\ effectiveDuration(toast, duration) > 0
    /\ effectiveDuration(toast, duration) # Infinity
    /\ toast.type # "loading"

\* usePauseableTimer(callback, duration, enabled, pauseOnBackground): whether the
\* effect reaches setTimeout(callback, duration)
ArmsTimer(duration, enabled, pauseOnBackground, appState) ==
    /\ ~(~enabled \/ duration <= 0 \/ duration = Infinity)
    /\ ~(pauseOnBackground /\ appState # "active")

\* usePauseableTimer(handleAutoClose, effectiveDuration, shouldAutoDismiss,
\*                   pauseOnAppBackground) in a Toast of a Toaster with these props
ToastArmsTimer(toast, duration, pauseOnAppBackground, appState) ==
    ArmsTimer(effectiveDuration(toast, duration), shouldAutoDismiss(toast, duration),
              pauseOnAppBackground, appState)

\* ANIMATION_DEFAULTS.exitDuration and the durations a Toaster and a toast are given,
\* in ticks of the clock
ExitDuration == 1
SurfaceDuration == 2
AppStates == {"active", "background"}

\* the Toaster renders again at time t with the list ts: the registry has published an
\* event and setToasts(ToastState.getToasts()) has replaced the list, or the app state
\* has changed. The Toasts no longer shown unmount and the effect cleanup clears their
\* timers. handleDismiss of the Toaster depends on [toasts], so every Toast shown gets
\* a new onDismiss, a new handleDismiss and a new handleAutoClose, and the effect of
\* usePauseableTimer, which depends on the callback and on the app state, runs again
\* in each: clearTimeout, then setTimeout with the whole duration.
\* `appeared` records when each Toast mounted and whether, since then, the app has
\* stayed active and no create or update has named the toast (steady), whether no
\* event of the registry has made the Toaster render again (quiet), and how long the
\* app has been active: activeBefore up to the last time it left the active state,
\* and since activeSince if it is active now.
RenderAgain(d, ts, t, cause) ==
    LET shown == Select(ts, d.toasterId, d.position, d.visibleToasts)
        ids == {shown[i].id : i \in 1..Len(shown)}
        was == {a.id : a \in d.appeared}
    IN  [d EXCEPT
           !.shown = shown,
           !.timers =
              {[id |-> shown[i].id,
                due |-> t + effectiveDuration(shown[i], d.duration),
                for |-> effectiveDuration(shown[i], d.duration)] :
                  i \in {j \in 1..Len(shown) :
                           ToastArmsTimer(shown[j], d.duration,
                                          d.pauseOnAppBackground, d.appState)}},
           !.appeared =
              {[a EXCEPT !.steady = /\ a.steady
                                    /\ d.appState = "active"
                                    /\ ~(/\ cause.kind \in {"create", "update"}
                                         /\ cause.id = a.id),
                         !.quiet = a.quiet /\ cause.kind = "appState",
                         !.activeBefore =
                            IF cause.kind = "appState" /\ d.appState # "active"
                            THEN a.activeBefore + (t - a.activeSince)
                            ELSE a.activeBefore,
                         !.activeSince =
                            IF cause.kind = "appState" /\ d.appState = "active"
                            THEN t
                            ELSE a.activeSince] :
                  a \in {b \in d.appeared : b.id \in ids}}
                \cup {[id |-> id, at |-> t, steady |-> d.appState = "active",
                        quiet |-> TRUE, activeBefore |-> 0, activeSince |-> t] :
                         id \in ids \ was},
           !.exiting = d.exiting \cap ids,
           !.cause = cause]

\* no re-render has a cause yet
NoCause == [kind |-> "none"]

\* a bound of the model: how many calls and app state changes the Toaster sees
MaxCalls == 3

\* useToastState: the subscriber of each channel calls setToasts(getToasts()), so the
\* Toaster renders again when the call has published an event
Delivered(cause) ==
    /\ display.calls < MaxCalls
    /\ display' = IF last'.events = << >> THEN [display EXCEPT !.calls = @ + 1]
                  ELSE RenderAgain([display EXCEPT !.calls = @ + 1], toasts', now, cause)

\* toast(title, options) and its variants, with a Toaster mounted
ShowCreate(title, type, options) ==
    /\ display.mounted
    /\ CreateCall(title, type, options)
    /\ Delivered([kind |-> "create", id |-> ResolveId(options)])

\* toast.update(toastId, options), with a Toaster mounted
ShowUpdate(toastId, options) ==
    /\ display.mounted
    /\ UpdateCall(toastId, options)
    /\ Delivered([kind |-> "update", id |-> toastId])

\* toast.dismiss(toastId), with a Toaster mounted
ShowDismiss(toastId) ==
    /\ display.mounted
    /\ DismissCall(Some(toastId))
    /\ Delivered([kind |-> "dismiss", id |-> toastId])

\* useAppState reports an app state change: the Toasts render again
AppStateChange(appState) ==
    /\ display.mounted
    /\ display.appState # appState
    /\ display.calls < MaxCalls
    /\ display' = RenderAgain([display EXCEPT !.appState = appState, !.calls = @ + 1],
                              toasts, now,
                              [kind |-> "appState"])
    /\ UNCHANGED <<toasts, dismissedToasts, subscribers, updateSubscribers,
                   dismissSubscribers, handles, toastCount, now, pending, last>>

\* a bound of the model: the clock stops here
MaxClock == 3

\* time passes, up to the moment the next timeout is due
Elapse ==
    /\ display.mounted
    /\ now < MaxClock
    /\ \A x \in display.timers \cup display.exits : x.due > now
    /\ now' = now + 1
    /\ UNCHANGED <<toasts, dismissedToasts, subscribers, updateSubscribers,
                   dismissSubscribers, handles, toastCount, pending, last, display>>

\* a variant without the isExiting check
StartsExitAlways(d, id) == TRUE

\* if (isExiting.current) return, in handleDismiss and delayedDismiss of a Toast
StartsExit(d, id) == id \notin d.exiting

\* isExiting.current = true; setTimeout(() => onDismiss(toast.id), exitDuration).
\* onDismiss is the handleDismiss the Toaster made in its last render, with the list
\* of that render.
BeginExit(d, toast, t) ==
    [d EXCEPT !.exiting = @ \cup {toast.id},
              !.exits = @ \cup {[id |-> toast.id, due |-> t + ExitDuration,
                                  onDismiss |-> Get(toast, "onDismiss")]}]

\* the timer of a Toast fires: handleAutoClose calls toast.onAutoClose?.(toast) and
\* then handleDismiss of the Toast, which returns at once when the Toast is exiting
\* already and otherwise begins the exit. `autoClosed` keeps the ids whose onAutoClose
\* has been invoked.
AutoClose(timer) ==
    /\ display.mounted
    /\ timer \in display.timers
    /\ timer.due = now
    /\ LET toast == display.shown[FindIndex(display.shown, timer.id)]
           a == CHOOSE b \in display.appeared : b.id = timer.id
           fresh == StartsExit(display, timer.id)
           d == IF fresh THEN BeginExit(display, toast, now) ELSE display
       IN  display' =
              [d EXCEPT
                 !.timers = @ \ {timer},
                 !.autoClosed = IF Get(toast, "onAutoClose") = Undefined THEN @
                                ELSE @ \cup {timer.id},
                 !.cause = [kind |-> "timer", id |-> timer.id, fresh |-> fresh,
                            toast |-> toast, at |-> a.at, steady |-> a.steady,
                            when |-> now, quiet |-> a.quiet,
                            active |-> a.activeBefore + (now - a.activeSince),
                            onAutoClose |-> Get(toast, "onAutoClose"),
                            again |-> timer.id \in display.autoClosed]]
    /\ UNCHANGED <<toasts, dismissedToasts, subscribers, updateSubscribers,
                   dismissSubscribers, handles, toastCount, now, pending, last>>

\* the exit timeout fires: handleDismiss of the Toaster calls toast.onDismiss when its
\* list had the toast, then ToastState.dismiss(toastId), whose event makes the Toaster
\* render again
ExitEnd(exit) ==
    /\ display.mounted
    /\ exit \in display.exits
    /\ exit.due = now
    /\ DismissCall(Some(exit.id))
    /\ display' = RenderAgain([display EXCEPT !.exits = @ \ {exit},
                                              !.called = exit.onDismiss,
                                              !.ended = @ \cup {exit.id}],
                              toasts', now,
                              [kind |-> "exit", id |-> exit.id,
                               again |-> exit.id \in display.ended])

\* the close button is pressed (handleDismiss) or a swipe ends beyond the threshold
\* (delayedDismiss); both are there for a dismissible toast only
Close(id) ==
    /\ display.mounted
    /\ display.calls < MaxCalls
    /\ FindIndex(display.shown, id) > 0
    /\ LET toast == display.shown[FindIndex(display.shown, id)]
       IN  /\ Get(toast, "dismissible") # Some(FALSE)
           /\ StartsExit(display, id)
           /\ display' = [BeginExit(display, toast, now) EXCEPT
                             !.calls = @ + 1,
                             !.cause = [kind |-> "close", id |-> id]]
    /\ UNCHANGED <<toasts, dismissedToasts, subscribers, updateSubscribers,
                   dismissSubscribers, handles, toastCount, now, pending, last>>

\* the payloads of the calls made while the timers run: the Toaster's default
\* duration, a loading toast, an infinite, a negative and a short duration
TimerPayloads ==
    { [type |-> "default", options |-> NoOptions],
      [type |-> "loading", options |-> [duration |-> Some(1)]],
      [type |-> "default", options |-> [duration |-> Some(Infinity)]],
      [type |-> "default", options |-> [duration |-> Some(0 - 1)]],
      [type |-> "default",
       options |-> [duration |-> Some(1), onDismiss |-> Some("d1"),
                    onAutoClose |-> Some("c1")]] }

\* the create calls made: the first id with each payload, the second with the first
TimerCreates ==
    {[type |-> p.type, options |-> Merge(p.options, [id |-> Some(<<"id", 1>>)])] :
        p \in TimerPayloads}
      \cup {[type |-> "default", options |-> [id |-> Some(<<"id", 2>>)]]}

TimerUpdates == {[title |-> Some("c")]}

\* a Toaster mounted with an empty list, subscribed to the three channels, with the
\* default position and capacity
InitTimers ==
    /\ toasts = << >>
    /\ dismissedToasts = << >>
    /\ subscribers = {"s1"}
    /\ updateSubscribers = {"s1"}
    /\ dismissSubscribers = {"s1"}
    /\ handles = {Closure(ch, "s1", FALSE) : ch \in Channels}
    /\ toastCount = 0
    /\ now = 0
    /\ pending = << >>
    /\ \E duration \in {SurfaceDuration}, pauseOnAppBackground \in BOOLEAN :
          display = [mounted |-> TRUE, toasterId |-> Undefined,
                     position |-> <<"top", "center">>, visibleToasts |-> 5,
                     duration |-> duration,
                     pauseOnAppBackground |-> pauseOnAppBackground,
                     appState |-> "active", shown |-> << >>, timers |-> {},
                     appeared |-> {}, exiting |-> {}, exits |-> {},
                     called |-> Undefined, cause |-> NoCause, calls |-> 0,
                     autoClosed |-> {}, ended |-> {}]
    /\ last = [op |-> "none", ret |-> Undefined, events |-> << >>, called |-> << >>]

NextTimers ==
    \/ \E c \in TimerCreates : ShowCreate("a", c.type, c.options)
    \/ \E o \in TimerUpdates : ShowUpdate(<<"id", 2>>, o)
    \/ ShowDismiss(<<"id", 2>>)
    \/ Elapse
    \/ \E timer \in display.timers : AutoClose(timer)
    \/ \E exit \in display.exits : ExitEnd(exit)

SpecTimers == InitTimers /\ [][NextTimers]_vars

\* the Toaster on a device: the close button and the swipe of a toast, and the
\* application going to the background and coming back
NextSurface ==
    \/ \E c \in TimerCreates : ShowCreate("a", c.type, c.options)
    \/ \E id \in ActiveIds(display.shown) : Close(id)
    \/ \E appState \in AppStates : AppStateChange(appState)
    \/ Elapse
    \/ \E timer \in display.timers : AutoClose(timer)
    \/ \E exit \in display.exits : ExitEnd(exit)

SpecSurface == InitTimers /\ [][NextSurface]_vars

----------------------------------------------------------------------------
(* useToastState: the list a display surface holds *)

\* the callback useToastState registers on the three channels
HookCallback == "s1"

\* useState(() => ToastState.getToasts()) in the first render of the hook; the effect
\* has not run yet
useToastStateRender ==
    /\ ~display.mounted
    /\ display' = [mounted |-> TRUE, subscribed |-> FALSE, toasts |-> toasts]
    /\ UNCHANGED <<toasts, dismissedToasts, subscribers, updateSubscribers,
                   dismissSubscribers, handles, toastCount, now, pending, last>>

\* the effect of the hook, run after the first render is committed: subscribe,
\* subscribeToDismiss and subscribeToUpdate; it reads nothing
useToastStateEffect ==
    /\ display.mounted
    /\ ~display.subscribed
    /\ subscribers' = subscribers \cup {HookCallback}
    /\ dismissSubscribers' = dismissSubscribers \cup {HookCallback}
    /\ updateSubscribers' = updateSubscribers \cup {HookCallback}
    /\ handles' = handles \cup {Closure(ch, HookCallback, FALSE) : ch \in Channels}
    /\ display' = [display EXCEPT !.subscribed = TRUE]
    /\ UNCHANGED <<toasts, dismissedToasts, toastCount, now, pending, last>>

\* () => setToasts(ToastState.getToasts()), run for each event published to the
\* hook's callback
SetToasts ==
    display' =
        IF /\ display.mounted
           /\ \E i \in 1..Len(last'.events) : HookCallback \in last'.events[i].to
        THEN [display EXCEPT !.toasts = toasts']
        ELSE display

\* the calls of the registry made before, during and after the mount of the hook
MountCreates == {[id |-> Some(<<"id", 1>>)], [id |-> Some(<<"id", 2>>)]}
MountUpdates == {[title |-> Some("c")]}

NextMount ==
    \/ useToastStateRender
    \/ useToastStateEffect
    \/ \E o \in MountCreates : CreateCall("a", "default", o) /\ SetToasts
    \/ \E id \in CallerIds, o \in MountUpdates : UpdateCall(id, o) /\ SetToasts
    \/ \E id \in CallerIds : DismissCall(Some(id)) /\ SetToasts
    \/ DismissCall(Undefined) /\ SetToasts
    \/ ClearDismissedHistory

SpecMount == Init /\ [][NextMount]_vars

----------------------------------------------------------------------------
(* dismiss called from inside an onDismiss callback *)

\* the depth of nested dismiss calls at which the engine throws a RangeError
StackLimit == 3

\* what an onDismiss callback of the runs below does with the registry: the
\* arguments of the dismiss calls it makes
CallbackDismisses(callback, toast) ==
    CASE callback = "again" -> <<Some(toast.id)>>
      [] callback = "all" -> <<Undefined>>
      [] callback = "next" -> <<Some(<<"id", 2>>)>>
      [] OTHER -> << >>

RECURSIVE dismissNested(_, _, _)
RECURSIVE dismissLoop(_, _, _, _)
RECURSIVE runOnDismiss(_, _, _)

\* toast.onDismiss?.(toast), and the dismiss call the callback makes
runOnDismiss(r, toast, depth) ==
    IF Get(toast, "onDismiss") = Undefined THEN r
    ELSE LET entered == [r EXCEPT !.called =
                            Append(@, [callback |-> toast.onDismiss[1], arg |-> toast])]
             inner == CallbackDismisses(toast.onDismiss[1], toast)
         IN  IF Len(inner) = 0 THEN entered
             ELSE dismissNested(entered, inner[1], depth + 1)

\* this.publishDismiss(toastId); this.cleanupDismissedCache()
dismissEnd(r, toastId) ==
    [r EXCEPT !.events = Append(@, publishDismiss(toastId)),
              !.cache = cleanupDismissedCache(@)]

\* for (const toast of this.toasts) { set; onDismiss }, over the array the loop
\* started with, from its index i on; an exception leaves the loop
dismissLoop(r, arr, i, depth) ==
    IF i > Len(arr) THEN r
    ELSE LET after == runOnDismiss([r EXCEPT !.cache = CacheSet(@, arr[i].id, now)],
                                   arr[i], depth)
         IN  IF after.thrown THEN after ELSE dismissLoop(after, arr, i + 1, depth)

\* dismiss(toastId) run at the given call depth on the registry fields r holds; an
\* exception thrown inside it skips the statements after the callback
dismissNested(r, toastId, depth) ==
    IF depth > StackLimit THEN [r EXCEPT !.thrown = TRUE]
    ELSE IF toastId = Undefined
         THEN LET after == dismissLoop(r, r.toasts, 1, depth)
              IN  IF after.thrown THEN after
                  ELSE dismissEnd([after EXCEPT !.toasts = << >>], toastId)
         ELSE LET i == FindIndex(r.toasts, toastId[1])
                  after == IF i > 0 THEN runOnDismiss(r, r.toasts[i], depth) ELSE r
              IN  IF after.thrown THEN after
                  ELSE dismissEnd([after EXCEPT
                                     !.cache = CacheSet(@, toastId[1], now),
                                     !.toasts = FilterOut(@, toastId[1])], toastId)

\* dismiss(toastId) called by the application, with callbacks that may call dismiss
DismissReentrant(toastId) ==
    /\ LET r == dismissNested([toasts |-> toasts, cache |-> dismissedToasts,
                               called |-> << >>, events |-> << >>, thrown |-> FALSE],
                              toastId, 1)
       IN  /\ toasts' = r.toasts
           /\ dismissedToasts' = r.cache
           /\ last' = [op |-> "dismiss", id |-> toastId, ret |-> Undefined,
                       events |-> r.events, called |-> r.called, thrown |-> r.thrown]
    /\ UNCHANGED <<subscribers, updateSubscribers, dismissSubscribers, handles,
                   toastCount, now, pending, display>>

\* the toasts of these runs: ids 1 and 2, without a callback or with one of the
\* callbacks above
ReentryCreates ==
    {[id |-> Some(id)] : id \in {<<"id", 1>>, <<"id", 2>>}}
      \cup {[id |-> Some(id), onDismiss |-> Some(c)] :
               id \in {<<"id", 1>>, <<"id", 2>>}, c \in {"d1", "again", "all", "next"}}

NextReentry ==
    \/ \E o \in ReentryCreates : Create("a", "default", o)
    \/ \E id \in {<<"id", 1>>, <<"id", 2>>} : DismissReentrant(Some(id))
    \/ DismissReentrant(Undefined)
    \/ ClearDismissedHistory

SpecReentry == Init /\ [][NextReentry]_vars

----------------------------------------------------------------------------
(* getToasts: the array a caller holds *)

\* a variant that returns this.toasts itself
getToastsSameArray(ts) == [shared |-> TRUE, elems |-> ts]

\* getToasts(): [...this.toasts], a new array with the elements of this.toasts.
\* `shared` tells whether the array returned is the object this.toasts refers to.
getToasts(ts) == [shared |-> FALSE, elems |-> ts]

\* the caller holds an array getToasts() returned
Holds(d) == "held" \in DOMAIN d

\* the array held after this.toasts.push(toast) or this.toasts[index] = toast: the
\* statement writes into the array object this.toasts refers to
AfterWrite(d, ts) ==
    IF Holds(d) /\ d.held.shared THEN [d EXCEPT !.held.elems = ts] ELSE d

\* the array held after this.toasts = ...: this.toasts refers to a new array object
AfterAssign(d) ==
    IF Holds(d) THEN [d EXCEPT !.held.shared = FALSE] ELSE d

\* const held = ToastState.getToasts()
GetToasts ==
    /\ display' = [mounted |-> FALSE, held |-> getToasts(toasts)]
    /\ last' = [op |-> "getToasts", ret |-> Undefined, events |-> << >>,
                called |-> << >>]
    /\ UNCHANGED <<toasts, dismissedToasts, subscribers, updateSubscribers,
                   dismissSubscribers, handles, toastCount, now, pending>>

\* a toast object made by the caller
OwnToast == BuildToast(NoOptions, <<"id", 9>>, "default", "x", 0)

\* held.pop() and held.push(own) of the caller
ChangeMembership(elems, change) ==
    IF change = "pop" THEN SubSeq(elems, 1, Len(elems) - 1) ELSE Append(elems, OwnToast)

\* the caller changes the membership of the array it holds
CallerChanges(change) ==
    /\ Holds(display)
    /\ change = "pop" => display.held.elems # << >>
    /\ change = "push" => Len(display.held.elems) < MaxToasts
    /\ display' = [display EXCEPT !.held.elems = ChangeMembership(@, change)]
    /\ toasts' = IF display.held.shared THEN ChangeMembership(toasts, change) ELSE toasts
    /\ last' = [op |-> "change", ret |-> Undefined, events |-> << >>, called |-> << >>]
    /\ UNCHANGED <<dismissedToasts, subscribers, updateSubscribers, dismissSubscribers,
                   handles, toastCount, now, pending>>

HeldCalls == {[work |-> "promise", data |-> StaticData, options |-> NoOptions]}

NextHeld ==
    \/ GetToasts
    \/ \E change \in {"pop", "push"} : CallerChanges(change)
    \/ \E id \in CallerIds, p \in Payloads :
          CreateCall(p.title, p.type, Merge(p.options, [id |-> Some(id)]))
             /\ display' = AfterWrite(display, toasts')
    \/ \E id \in CallerIds, o \in MountUpdates :
          UpdateCall(id, o) /\ display' = AfterWrite(display, toasts')
    \/ \E id \in CallerIds : DismissCall(Some(id)) /\ display' = AfterAssign(display)
    \/ DismissCall(Undefined) /\ display' = AfterAssign(display)
    \/ \E c \in HeldCalls :
          PromiseCall(c.work, c.data, c.options) /\ display' = AfterWrite(display, toasts')
    \/ \E outcome \in {"resolved", "rejected"} :
          PromiseSettleCall(outcome) /\ display' = AfterWrite(display, toasts')
    \/ ClearDismissedHistory

SpecHeld == Init /\ [][NextHeld]_vars

----------------------------------------------------------------------------
(* Steps, as the properties below name them *)

\* the inputs of the create calls of Next
CreateInputs ==
    {[title |-> p.title, type |-> p.type, options |-> Merge(p.options, c)] :
        p \in Payloads, c \in IdChoices}

\* the toast at index i is the same before and after the step, for every i but `except`
SameElsewhere(except) ==
    \A i \in 1..Len(toasts) : i # except => (i <= Len(toasts') /\ toasts'[i] = toasts[i])

----------------------------------------------------------------------------
(* C1: after any sequence of create, update, dismiss, promise and              *)
(* clearDismissedHistory calls the active list holds at most one toast per id. *)

C1_OneToastPerId ==
    \A i, j \in 1..Len(toasts) : toasts[i].id = toasts[j].id => i = j

\* a second toast is active and the last call was made on an id already active
C1_Witness ==
    /\ Len(toasts) = 2
    /\ last.op \in {"create", "promise"}
    /\ last.events # << >>
    /\ last.events[1].channel = "update"

----------------------------------------------------------------------------
(* C2: create with an id that is in the dismissed-id cache (dismissed, and     *)
(* since neither evicted nor cleared) returns the id, adds no active toast,    *)
(* changes no existing toast and fires no event on any channel.                *)

CreateStep(in) == Create(in.title, in.type, in.options)

C2_SuppressedCreate ==
    [][\A in \in CreateInputs :
          (CreateStep(in) /\ CacheHas(dismissedToasts, ResolveId(in.options)))
             => /\ toasts' = toasts
                /\ dismissedToasts' = dismissedToasts
                /\ last'.ret = ResolveId(in.options)
                /\ last'.events = << >>]_vars

\* a create was made on a cached id while another toast was active
C2_Witness ==
    /\ last.op = "create"
    /\ CacheHas(dismissedToasts, last.id)
    /\ Len(toasts) >= 1

----------------------------------------------------------------------------
(* C3: create with an id, caller-supplied or generated, that is neither active *)
(* nor in the dismissed-id cache appends exactly one toast at the end of the   *)
(* active list, leaves every other toast unchanged, fires the create channel   *)
(* exactly once with that toast, fires no update or dismiss event, and returns *)
(* the id.                                                                     *)

C3_CreateAppends ==
    [][\A in \in CreateInputs :
          LET id == ResolveId(in.options)
          IN  (/\ CreateStep(in)
               /\ ~CacheHas(dismissedToasts, id)
               /\ id \notin ActiveIds(toasts))
              => /\ Len(toasts') = Len(toasts) + 1
                 /\ SubSeq(toasts', 1, Len(toasts)) = toasts
                 /\ toasts'[Len(toasts')].id = id
                 /\ toasts'[Len(toasts')].title = in.title
                 /\ toasts'[Len(toasts')].type = in.type
                 /\ Len(last'.events) = 1
                 /\ last'.events[1].channel = "create"
                 /\ last'.events[1].arg = toasts'[Len(toasts')]
                 /\ last'.ret = id]_vars

\* a toast with a generated id was appended behind another toast
C3_Witness ==
    /\ last.op = "create"
    /\ Len(toasts) = 2
    /\ last.id = toasts[2].id
    /\ last.id \notin CallerIds
    /\ last.events # << >>
    /\ last.events[1].channel = "create"

----------------------------------------------------------------------------
(* C4: create with an id that is already active leaves the length of the       *)
(* active list and the position of every toast unchanged, replaces the record  *)
(* at that id's position with the newly supplied title, kind and options,      *)
(* fires exactly one update event and no create event, and returns the id.     *)

C4_CreateReplaces ==
    [][\A in \in CreateInputs :
          LET id == ResolveId(in.options)
              at == FindIndex(toasts, id)
          IN  (CreateStep(in) /\ at > 0)
              => /\ Len(toasts') = Len(toasts)
                 /\ SameElsewhere(at)
                 /\ toasts'[at].id = id
                 /\ toasts'[at].title = in.title
                 /\ toasts'[at].type = in.type
                 /\ DOMAIN toasts'[at] =
                       (DOMAIN in.options) \cup {"id", "type", "title", "createdAt"}
                 /\ \A k \in (DOMAIN in.options) \ {"id"} : toasts'[at][k] = in.options[k]
                 /\ Len(last'.events) = 1
                 /\ last'.events[1].channel = "update"
                 /\ last'.events[1].arg = toasts'[at]
                 /\ last'.ret = id]_vars

\* the first of two toasts was replaced by a create with other fields
C4_Witness ==
    /\ last.op = "create"
    /\ Len(toasts) = 2
    /\ last.id = toasts[1].id
    /\ last.events # << >>
    /\ last.events[1].channel = "update"
    /\ toasts[1].title = "b"

----------------------------------------------------------------------------
(* C5: from the moment an id enters the active list until it is removed from   *)
(* it, the createdAt of the toast with that id never changes, whatever create, *)
(* update or promise calls are made on that id in between.                     *)

C5_CreatedAtNeverChanges ==
    [][\A i \in 1..Len(toasts) : \A j \in 1..Len(toasts') :
          toasts'[j].id = toasts[i].id => toasts'[j].createdAt = toasts[i].createdAt]_vars

----------------------------------------------------------------------------
(* C6: for every active toast T and every partial-field argument, also one     *)
(* that carries a different id or createdAt, update(T.id, fields) returns      *)
(* true; afterwards the toast has id T.id and T's createdAt, sits at the same  *)
(* list position, and exactly one update event carrying the merged record has  *)
(* fired.                                                                      *)

C6_UpdatePreservesIdentity ==
    [][\A id \in KnownIds, o \in UpdateOptions :
          LET at == FindIndex(toasts, id)
          IN  (Update(id, o) /\ at > 0)
              => /\ last'.ret = TRUE
                 /\ Len(toasts') = Len(toasts)
                 /\ SameElsewhere(at)
                 /\ FindIndex(toasts', id) = at
                 /\ toasts'[at].id = id
                 /\ toasts'[at].createdAt = toasts[at].createdAt
                 /\ \A k \in (DOMAIN o) \ {"id", "createdAt", "type", "title"} :
                        toasts'[at][k] = o[k]
                 /\ Len(last'.events) = 1
                 /\ last'.events[1].channel = "update"
                 /\ last'.events[1].arg = toasts'[at]]_vars

\* an update carrying another id and createdAt succeeded on the second of two toasts,
\* later than the toast was created
C6_Witness ==
    /\ last.op = "update"
    /\ last.ret = TRUE
    /\ Len(toasts) = 2
    /\ last.id = toasts[2].id
    /\ Get(last.options, "id") # Undefined
    /\ Get(last.options, "createdAt") # Undefined
    /\ toasts[2].createdAt < now

----------------------------------------------------------------------------
(* C7: update on an id that is not active returns false, fires no event on any *)
(* channel, and leaves the active list and the dismissed-id cache unchanged.   *)

C7_UpdateAbsent ==
    [][\A id \in KnownIds, o \in UpdateOptions :
          (Update(id, o) /\ id \notin ActiveIds(toasts))
             => /\ last'.ret = FALSE
                /\ last'.events = << >>
                /\ toasts' = toasts
                /\ dismissedToasts' = dismissedToasts]_vars

\* an update was made on an id that is not active, while another toast was
C7_Witness ==
    /\ last.op = "update"
    /\ last.id \notin ActiveIds(toasts)
    /\ Len(toasts) >= 1

----------------------------------------------------------------------------
(* C8: after dismiss() with no id returns, for any number of previously active *)
(* toasts and any prior contents of the dismissed-id cache, getToasts() is     *)
(* empty and every id that was active just before the call is present in the  *)
(* dismissed-id cache.                                                         *)

\* the step is the dismiss() call that `last` records afterwards
DismissAllStep ==
    /\ last'.op = "dismiss"
    /\ last'.id = Undefined
    /\ Dismiss(Undefined)

C8_DismissAllRecordsEveryId ==
    [][DismissAllStep
          => /\ toasts' = << >>
             /\ ActiveIds(toasts) \subseteq CacheIds(dismissedToasts')]_vars

(* C8 as amended: after dismiss() with no id returns, getToasts() is empty,    *)
(* and every id that was active just before the call is present in the        *)
(* dismissed-id cache whenever the cache, with those ids recorded, holds at    *)
(* most DISMISSED_CACHE_MAX_SIZE entries, or held at least                     *)
(* DISMISSED_CACHE_CLEANUP_THRESHOLD entries before the call; otherwise the    *)
(* call's own cleanup evicts some of the ids just dismissed.                   *)

C8_DismissAllAmended ==
    [][DismissAllStep
          => /\ toasts' = << >>
             /\ (\/ Cardinality(CacheIds(dismissedToasts) \cup ActiveIds(toasts))
                        <= DISMISSED_CACHE_MAX_SIZE
                 \/ Len(dismissedToasts) >= DISMISSED_CACHE_CLEANUP_THRESHOLD)
                => ActiveIds(toasts) \subseteq CacheIds(dismissedToasts')]_vars

\* dismiss() ran the cleanup and the first toast's id is in the cache
C8_Witness ==
    /\ last.op = "dismiss"
    /\ last.id = Undefined
    /\ last.evicted # {}
    /\ toasts = << >>
    /\ CacheHas(dismissedToasts, BulkId(1))

----------------------------------------------------------------------------
(* C9: dismiss(id) of an active id removes exactly that toast: every other     *)
(* active toast remains, unchanged and in the same relative order, and no      *)
(* onDismiss callback of any other toast is invoked.                           *)

\* the step is the dismiss(id) call that `last` records afterwards
DismissIdStep ==
    /\ last'.op = "dismiss"
    /\ last'.id # Undefined
    /\ Dismiss(last'.id)

C9_DismissRemovesOne ==
    [][LET id == last'.id[1]
           at == FindIndex(toasts, id)
       IN  (DismissIdStep /\ at > 0)
           => /\ toasts' = SubSeq(toasts, 1, at - 1) \o SubSeq(toasts, at + 1, Len(toasts))
              /\ id \notin ActiveIds(toasts')
              /\ \A c \in 1..Len(last'.called) : last'.called[c].arg.id = id]_vars

\* dismiss(id) took the second toast out from between two others, invoked its onDismiss,
\* and the toasts left have an onDismiss callback too
C9_Witness ==
    /\ last.op = "dismiss"
    /\ last.id = Some(BulkId(2))
    /\ last.called # << >>
    /\ Len(toasts) >= 2
    /\ toasts[1].id = BulkId(1)
    /\ toasts[2].id = BulkId(3)
    /\ \A i \in 1..Len(toasts) : Get(toasts[i], "onDismiss") # Undefined

----------------------------------------------------------------------------
(* C10: every dismiss call (id active, id not active, or id omitted, also when *)
(* the active list is empty) invokes each dismiss-subscriber exactly once,     *)
(* carrying the given id (or undefined for dismiss-all), and fires no create   *)
(* or update event.                                                            *)

C10_DismissPublishesOnce ==
    [][\A toastId \in {Undefined} \cup {Some(id) : id \in KnownIds} :
          Dismiss(toastId)
             => /\ Len(last'.events) = 1
                /\ last'.events[1].channel = "dismiss"
                /\ last'.events[1].arg = toastId
                /\ last'.events[1].to = dismissSubscribers]_vars

\* dismiss(id) of an id that is not active, with two dismiss-subscribers and a subscriber
\* on each of the other channels
C10_Witness ==
    /\ last.op = "dismiss"
    /\ last.id # Undefined
    /\ last.called = << >>
    /\ toasts = << >>
    /\ dismissSubscribers = Callbacks
    /\ subscribers # {}
    /\ updateSubscribers # {}

----------------------------------------------------------------------------
(* C11: dismiss(id) for an id that is not active does not throw, invokes no    *)
(* onDismiss callback, leaves the active list unchanged, and records the id in *)
(* the dismissed-id cache so that a later create with that id is suppressed.   *)
(* A create is suppressed exactly when its id is in the cache (C2), so the     *)
(* last part is that the id is in the cache when dismiss returns.              *)

C11_DismissAbsentId ==
    [][LET id == last'.id[1]
       IN  (DismissIdStep /\ FindIndex(toasts, id) = 0)
           => /\ last'.called = << >>
              /\ toasts' = toasts
              /\ CacheHas(dismissedToasts', id)]_vars

----------------------------------------------------------------------------
(* C12: for every create, update and dismiss call, at the moment any           *)
(* subscriber is invoked the registry's state (active list and dismissed-id    *)
(* cache, including any cache eviction caused by the call) already equals the  *)
(* state the call leaves behind when it returns.                               *)

C12_StateAppliedBeforePublish ==
    (/\ last.op \in {"create", "update", "dismiss"}
     /\ last.events # << >>
     /\ last.events[1].to # {})
        => last.seen = Seen(toasts, dismissedToasts)

----------------------------------------------------------------------------
(* C13: the dismissed-id cache is bounded: after any dismiss call returns      *)
(* (dismiss(id) or dismiss-all of any number of active toasts), the cache      *)
(* holds at most DISMISSED_CACHE_MAX_SIZE (100) entries.                       *)

C13_CacheBounded ==
    last.op = "dismiss" => Len(dismissedToasts) <= DISMISSED_CACHE_MAX_SIZE

----------------------------------------------------------------------------
(* C14: whenever the dismissed-id cache evicts entries, it evicts the oldest   *)
(* ones: every evicted entry has a dismissal timestamp less than or equal to   *)
(* that of every entry that is retained.                                       *)

\* the timestamps of the entries the last dismiss call evicted
EvictedStamps ==
    LET before == last.seen.dismissedToasts
    IN  {before[i].ts : i \in {k \in 1..Len(before) : before[k].id \in last.evicted}}

RetainedStamps == {dismissedToasts[i].ts : i \in 1..Len(dismissedToasts)}

C14_EvictsOldest ==
    last.op = "dismiss"
        => \A e \in EvictedStamps : \A r \in RetainedStamps : e <= r

\* a dismiss call evicted entries and kept the entry that is first in the Map's order,
\* restamped since; entries of two timestamps are left
C14_Witness ==
    /\ last.op = "dismiss"
    /\ last.evicted # {}
    /\ last.seen.dismissedToasts[1].id \notin last.evicted
    /\ Cardinality(RetainedStamps) = 2

----------------------------------------------------------------------------
(* C15: clearDismissedHistory empties the dismissed-id cache, leaves the       *)
(* active list unchanged and fires no event; immediately afterwards create     *)
(* with any previously dismissed, currently inactive id adds an active toast   *)
(* and fires a create event.                                                   *)

\* what create(title, "default", {id}) would do in the state the step leaves
CreateAfterStep(id) == create("a", "default", [id |-> Some(id)])'

C15_ClearReenablesCreate ==
    [][ClearDismissedHistory
          => /\ dismissedToasts' = << >>
             /\ toasts' = toasts
             /\ last'.events = << >>
             /\ \A id \in CacheIds(dismissedToasts) \ ActiveIds(toasts) :
                   /\ Len(CreateAfterStep(id).toasts) = Len(toasts) + 1
                   /\ SubSeq(CreateAfterStep(id).toasts, 1, Len(toasts)) = toasts
                   /\ CreateAfterStep(id).toasts[Len(toasts) + 1].id = id
                   /\ Len(CreateAfterStep(id).events) = 1
                   /\ CreateAfterStep(id).events[1].channel = "create"]_vars

\* the cache was cleared of a dismissed id while a toast was active
C15_Witness ==
    /\ last.op = "clearDismissedHistory"
    /\ last.cleared # {}
    /\ toasts # << >>
    /\ dismissedToasts = << >>

----------------------------------------------------------------------------
(* C16: the unsubscribe function returned by subscribe, subscribeToUpdate or   *)
(* subscribeToDismiss removes exactly the callback it was returned for, from   *)
(* exactly that channel, and calling it again at any later time (including     *)
(* after the same callback has been subscribed again on that channel) changes  *)
(* nothing.                                                                    *)

C16_UnsubscribeOnce ==
    [][\A h \in handles :
          Unsubscribe(h.channel, h.callback, h.called)
             => /\ \A ch \in Channels \ {h.channel} : ChannelSet(ch)' = ChannelSet(ch)
                /\ ChannelSet(h.channel)' =
                      IF h.called THEN ChannelSet(h.channel)
                      ELSE ChannelSet(h.channel) \ {h.callback}]_vars

----------------------------------------------------------------------------
(* Promise calls, as the properties below name them *)

\* the last step was the end of a promise call whose work failed: the work rejected, or
\* the function given as the work threw when called
WorkFailed ==
    \/ last.op = "settle" /\ last.outcome = "rejected"
    \/ last.op = "promise" /\ last.work = "throws"

----------------------------------------------------------------------------
(* C17: when the work given to promise fails, the toast with the call's id is  *)
(* active with kind error, dismissible true and the title resolved from        *)
(* errorText (static value or function of the error) at the moment the failure *)
(* propagates to the caller, for every sequence of other registry operations   *)
(* that happened while the work was pending and every caller-supplied id.      *)

C17_FailedPromiseShowsError ==
    WorkFailed
        => LET at == FindIndex(toasts, last.id)
           IN  /\ at > 0
               /\ toasts[at].type = "error"
               /\ Get(toasts[at], "dismissible") = Some(TRUE)
               /\ toasts[at].title = Resolve(last.data.error, WorkError)

----------------------------------------------------------------------------
(* C18: whenever the work given to promise fails with failure e, the promise   *)
(* call itself fails with exactly e: the registry never completes the call     *)
(* normally and never replaces e with another failure.                         *)

----------------------------------------------------------------------------
(* C19: for every promise call, whether the work is an already-pending promise *)
(* or a function producing one and whether it succeeds or fails in any way,    *)
(* the finally callback runs exactly once, after the success/error update call *)
(* and before the result is returned or the failure propagates to the caller.  *)

C19_FinallyOnce ==
    (/\ last.op \in {"settle", "promise"}
     /\ last.result # Undefined
     /\ Get(last.data, "finally") # Undefined)
        => last.trace = <<"update", "finally">>

----------------------------------------------------------------------------
(* C20: when the work given to promise resolves with result r and the toast is *)
(* still active, the same id (same createdAt, same list position) becomes kind *)
(* success with dismissible true and the title successText or successText(r),  *)
(* exactly one update event fires for it, and the call returns r.              *)

C20_ResolvedPromiseShowsSuccess ==
    [][LET p == pending[1]
           at == FindIndex(toasts, p.id)
       IN  (PromiseSettle("resolved") /\ at > 0)
           => /\ Len(toasts') = Len(toasts)
              /\ SameElsewhere(at)
              /\ toasts'[at].id = p.id
              /\ toasts'[at].createdAt = toasts[at].createdAt
              /\ toasts'[at].type = "success"
              /\ Get(toasts'[at], "dismissible") = Some(TRUE)
              /\ toasts'[at].title = Resolve(p.data.success, WorkResult)
              /\ Len(last'.events) = 1
              /\ last'.events[1].channel = "update"
              /\ last'.events[1].arg = toasts'[at]
              /\ last'.result = Some([ret |-> WorkResult])]_vars

\* the work of a call made with a title function resolved later than the call was made,
\* and its toast, the second of two, shows the function's title
C20_Witness ==
    /\ last.op = "settle"
    /\ last.outcome = "resolved"
    /\ last.events # << >>
    /\ Len(toasts) = 2
    /\ toasts[2].id = last.id
    /\ toasts[2].title = Format[WorkResult]
    /\ toasts[2].createdAt < now

----------------------------------------------------------------------------
(* The selector, as the properties below name it *)

\* a Toaster has rendered
Rendered == display.mounted

\* the toasts the Toaster keeps for its surface, and those in the order it sorts them
Kept == filteredToasts(toasts, display.toasterId)
Sorted == sortedToasts(Kept, display.position)

Members(seq) == {seq[i] : i \in 1..Len(seq)}
Ids(seq) == [i \in 1..Len(seq) |-> seq[i].id]

\* the important toasts among those kept
ImportantKept == {t \in Members(Kept) : IsImportant(t)}

\* the lists holding the same toasts as ts in any order
Reorderings(ts) ==
    {[i \in 1..Len(ts) |-> ts[f[i]]] :
        f \in {g \in [1..Len(ts) -> 1..Len(ts)] :
                  \A i, j \in 1..Len(ts) : g[i] = g[j] => i = j}}

----------------------------------------------------------------------------
(* C22: for every display surface (with a target id set or unset) and every    *)
(* active list, a toast is eligible for display on that surface only if its    *)
(* toasterId equals the surface's id or its toasterId is unset; a toast routed *)
(* to one named surface is never shown on any other surface, and a toast with  *)
(* no toasterId is eligible on every surface.                                  *)

C22_OnlyEligibleShown ==
    Rendered
        => /\ \A t \in Members(display.shown) :
                 \/ Get(t, "toasterId") = Undefined
                 \/ Get(t, "toasterId") = display.toasterId
           /\ display.visibleToasts <= 0
                 => \A i \in 1..Len(toasts) :
                       Get(toasts[i], "toasterId") = Undefined
                          => toasts[i] \in Members(display.shown)

----------------------------------------------------------------------------
(* C23: for any active list containing k important toasts eligible for a       *)
(* surface and any positive capacity limit n (whether n >= k or n < k), with   *)
(* either anchor, the selector's output contains all k important toasts.       *)
(* The eligible toasts are those the Toaster's filter keeps.                   *)

C23_ImportantAlwaysShown ==
    (Rendered /\ display.visibleToasts > 0)
        => ImportantKept \subseteq Members(display.shown)

\* two important toasts are shown under a capacity of one, and a regular toast is hidden
C23_Witness ==
    /\ Rendered
    /\ display.visibleToasts = 1
    /\ Cardinality(ImportantKept) = 2
    /\ Len(Kept) = 3
    /\ Members(display.shown) = ImportantKept

----------------------------------------------------------------------------
(* C24: with a top anchor, no important toasts and a positive capacity n, the  *)
(* selector returns exactly the min(n, count) most recently created eligible   *)
(* toasts, ordered newest first by createdAt.                                  *)

C24_TopShowsNewest ==
    (/\ Rendered
     /\ StartsWith(display.position, "top")
     /\ display.visibleToasts > 0
     /\ ImportantKept = {})
        => /\ Len(display.shown) = Min(display.visibleToasts, Len(Kept))
           /\ Members(display.shown) \subseteq Members(Kept)
           /\ \A i, j \in 1..Len(display.shown) :
                 i < j => /\ display.shown[i].createdAt >= display.shown[j].createdAt
                          /\ display.shown[i] # display.shown[j]
           /\ \A t \in Members(Kept) \ Members(display.shown) :
                 \A u \in Members(display.shown) : t.createdAt <= u.createdAt

\* two of three regular toasts are shown at the top, a newer above an older, and the one
\* hidden is the oldest and the last in the active list
C24_Witness ==
    /\ Rendered
    /\ StartsWith(display.position, "top")
    /\ display.visibleToasts = 2
    /\ ImportantKept = {}
    /\ Len(Kept) = 3
    /\ Len(display.shown) = 2
    /\ display.shown[1].createdAt > display.shown[2].createdAt
    /\ toasts[3] \notin Members(display.shown)

----------------------------------------------------------------------------
(* C25: for every active list (including lists with equal createdAt values)    *)
(* and every surface id, with no capacity limit (limit <= 0), the selector's   *)
(* output for a bottom anchor, reversed, equals its output for a top anchor.   *)

C25_BottomReversedIsTop ==
    (/\ Rendered
     /\ StartsWith(display.position, "bottom")
     /\ display.visibleToasts <= 0)
        => Reverse(display.shown)
              = Select(toasts, display.toasterId, <<"top", display.position[2]>>,
                       display.visibleToasts)

\* three toasts are shown at the bottom without a limit, two of them created at the same
\* time
C25_Witness ==
    /\ Rendered
    /\ StartsWith(display.position, "bottom")
    /\ display.visibleToasts <= 0
    /\ Len(display.shown) = 3
    /\ display.shown[1].createdAt = display.shown[2].createdAt
    /\ display.shown[2].createdAt < display.shown[3].createdAt

----------------------------------------------------------------------------
(* C26: the selector's output order depends only on createdAt, importance and  *)
(* the anchor: for any two active lists that contain the same toasts in a      *)
(* different list order, the selector returns the same sequence of ids for the *)
(* same surface, anchor and capacity.                                          *)

C26_OrderIgnoresListOrder ==
    Rendered
        => \A other \in Reorderings(toasts) :
              Ids(Select(other, display.toasterId, display.position,
                         display.visibleToasts))
                 = Ids(display.shown)

----------------------------------------------------------------------------
(* C27: when visibleToasts is n > 0, a Toaster shows at most n toasts for      *)
(* every active list.                                                          *)

C27_AtMostCapacity ==
    (Rendered /\ display.visibleToasts > 0)
        => Len(display.shown) <= display.visibleToasts

(* C27 as amended: when visibleToasts is n > 0, a Toaster shows at most n      *)
(* toasts, unless more than n of the toasts of its surface are important: it   *)
(* then shows those important toasts, all of them, and no other toast.         *)

C27_AtMostCapacityAmended ==
    (Rendered /\ display.visibleToasts > 0)
        => IF Cardinality(ImportantKept) > display.visibleToasts
           THEN /\ Members(display.shown) = ImportantKept
                /\ Len(display.shown) = Cardinality(ImportantKept)
           ELSE Len(display.shown) <= display.visibleToasts

\* three important toasts are shown under a capacity of two
C27_Witness ==
    /\ Rendered
    /\ display.visibleToasts = 2
    /\ Cardinality(ImportantKept) = 3
    /\ Len(display.shown) = 3

----------------------------------------------------------------------------
(* C28: capacity enforcement is a stable filter: for every active list, anchor *)
(* and positive limit, the selector's output is a duplicate-free subsequence   *)
(* of the sorted (pre-capacity) list, so any two shown toasts appear in the    *)
(* same relative order as in the sorted list and an important toast never      *)
(* moves ahead of or behind its sorted position.                               *)

C28_StableFilter ==
    (Rendered /\ display.visibleToasts > 0)
        => /\ display.shown
                 = SelectSeq(Sorted, LAMBDA t : t \in Members(display.shown))
           /\ \A i, j \in 1..Len(display.shown) :
                 display.shown[i] = display.shown[j] => i = j

\* under a capacity of two a regular toast is shown ahead of an important one, as they
\* are sorted, and another regular toast is hidden
C28_Witness ==
    /\ Rendered
    /\ display.visibleToasts = 2
    /\ Len(Sorted) = 3
    /\ Len(display.shown) = 2
    /\ ~IsImportant(display.shown[1])
    /\ IsImportant(display.shown[2])

----------------------------------------------------------------------------
(* C21: from the promise call until its work settles, the toast created by the *)
(* call has kind loading, infinite duration and dismissible false, whatever    *)
(* duration or dismissible the caller passed in options, and it is never       *)
(* auto-dismissed by the display layer in that interval: no Toast arms a timer *)
(* for it, whatever the Toaster's duration, pauseOnAppBackground and the app   *)
(* state. The interval is taken without another create or update call naming   *)
(* the toast's id; the other calls made in it leave the toast as it is.        *)

IsLoadingToast(toast) ==
    /\ toast.type = "loading"
    /\ Get(toast, "duration") = Some(Infinity)
    /\ Get(toast, "dismissible") = Some(FALSE)
    /\ \A duration \in {0, 1, SurfaceDuration, Infinity},
          pauseOnAppBackground \in BOOLEAN, appState \in AppStates :
          ~ToastArmsTimer(toast, duration, pauseOnAppBackground, appState)

----------------------------------------------------------------------------
(* The timers, as the properties below name them *)

\* the toast's effective duration on the Toaster: its own, else the Toaster's
DurationOf(toast) ==
    IF "duration" \in DOMAIN toast /\ toast.duration # Undefined
    THEN toast.duration[1]
    ELSE display.duration

\* the toast is one whose timer never runs: a loading toast, or one whose effective
\* duration is infinite or not positive
Exempt(toast) ==
    \/ toast.type = "loading"
    \/ DurationOf(toast) = Infinity
    \/ DurationOf(toast) <= 0

\* a timer for the toast's effective duration is armed
HasTimer(toast) ==
    \E timer \in display.timers :
       /\ timer.id = toast.id
       /\ timer.for = DurationOf(toast)
       /\ timer.due <= now + DurationOf(toast)

\* the app is in the background of a Toaster that pauses there
Paused == display.pauseOnAppBackground /\ display.appState # "active"

----------------------------------------------------------------------------
(* C29: a displayed toast is never auto-dismissed by its timer when its kind   *)
(* is loading, when its effective duration (toast.duration, else the surface   *)
(* default) is infinite, or when that duration is non-positive; in every other *)
(* case a timer for the effective duration is armed while the toast is         *)
(* displayed.                                                                  *)

C29_TimerArmedUnlessExempt ==
    /\ display.cause.kind = "timer" => ~Exempt(display.cause.toast)
    /\ \A i \in 1..Len(display.shown) :
          IF Exempt(display.shown[i])
          THEN \A timer \in display.timers : timer.id # display.shown[i].id
          ELSE HasTimer(display.shown[i])

(* C29 as amended: a displayed toast is never auto-dismissed by its timer when *)
(* its kind is loading, when its effective duration is infinite, or when that  *)
(* duration is non-positive; in every other case a timer for the effective     *)
(* duration is armed while the toast is displayed, except while the Toaster    *)
(* has pauseOnAppBackground and the app is not active, when no timer is armed  *)
(* at all, and except once the timer has fired and the toast is exiting.       *)

C29_TimerArmedAmended ==
    /\ display.cause.kind = "timer" => ~Exempt(display.cause.toast)
    /\ Paused => display.timers = {}
    /\ \A i \in 1..Len(display.shown) :
          IF Exempt(display.shown[i])
          THEN \A timer \in display.timers : timer.id # display.shown[i].id
          ELSE \/ HasTimer(display.shown[i])
               \/ Paused
               \/ display.shown[i].id \in display.exiting

\* some time after they appeared a loading toast given a duration is shown without a
\* timer, next to a toast whose timer runs for the Toaster's duration
C29_Witness ==
    /\ Len(display.shown) = 2
    /\ now > 0
    /\ \E i, j \in 1..2 :
          /\ display.shown[i].type = "loading"
          /\ Get(display.shown[i], "duration") = Some(1)
          /\ \A timer \in display.timers : timer.id # display.shown[i].id
          /\ Get(display.shown[j], "duration") = Undefined
          /\ HasTimer(display.shown[j])
          /\ display.shown[j].createdAt < now

----------------------------------------------------------------------------
(* C30: auto-dismiss countdowns are independent per toast: creating, updating  *)
(* or dismissing one toast never restarts, delays or cancels the countdown of  *)
(* a different displayed toast, so every displayed auto-dismissing toast is    *)
(* dismissed one effective duration after it appeared while the app stays      *)
(* active. The dismissal is taken to begin when the timer fires; a toast that  *)
(* a create or update call has named since it appeared is left out.            *)

C30_CountdownsIndependent ==
    /\ [][(/\ display'.calls # display.calls
           /\ display'.cause.kind \in {"create", "update", "dismiss"})
             => \A timer \in display.timers :
                   (/\ timer.id # display'.cause.id
                    /\ FindIndex(display'.shown, timer.id) > 0)
                      => timer \in display'.timers]_vars
    /\ []((/\ display.cause.kind = "timer"
           /\ display.cause.fresh
           /\ display.cause.steady)
             => display.cause.when = display.cause.at + DurationOf(display.cause.toast))

----------------------------------------------------------------------------
(* C34: under a positive capacity limit the regular (non-important) toasts     *)
(* that stay visible are the most recent ones for both top and bottom anchors: *)
(* no hidden regular toast has a createdAt later than that of a shown regular  *)
(* toast, and the newest eligible toast is always shown at the anchored edge.  *)

C34_NewestRegularStayVisible ==
    (Rendered /\ display.visibleToasts > 0 /\ Len(Kept) > 0)
        => /\ \A hidden \in Members(Kept) \ Members(display.shown) :
                 \A shown \in Members(display.shown) :
                    (~IsImportant(hidden) /\ ~IsImportant(shown))
                       => hidden.createdAt <= shown.createdAt
           /\ Len(display.shown) > 0
           /\ LET edge == IF StartsWith(display.position, "bottom")
                          THEN display.shown[Len(display.shown)]
                          ELSE display.shown[1]
              IN  \A t \in Members(Kept) : t.createdAt <= edge.createdAt

----------------------------------------------------------------------------
(* C35: in every state where no registry operation is in progress, no id is    *)
(* both in the active list and in the dismissed-id cache, after any sequence   *)
(* of create, update, dismiss, promise and clearDismissedHistory calls whose   *)
(* callbacks neither throw nor call back into the registry.                    *)

C35_ActiveAndDismissedDisjoint ==
    ActiveIds(toasts) \cap CacheIds(dismissedToasts) = {}

\* a promise call has settled after its toast was dismissed, one id is in the cache and
\* another is active
C35_Witness ==
    /\ last.op = "settle"
    /\ CacheIds(dismissedToasts) # {}
    /\ ActiveIds(toasts) # {}

----------------------------------------------------------------------------
(* C37: if the loading toast of a promise call is dismissed, by dismiss(id) or *)
(* dismiss(), while the work is pending, then when the work settles no toast   *)
(* with that id is added back to the active list and no create or update event *)
(* fires; the call still returns the result or rethrows the failure.           *)

SettleResult(outcome) ==
    IF outcome = "resolved" THEN Some([ret |-> WorkResult])
    ELSE Some([throw |-> WorkError])

C37_DismissedPromiseStaysGone ==
    [][\A outcome \in {"resolved", "rejected"} :
          (/\ PromiseSettle(outcome)
           /\ pending[1].dismissed)
             => /\ ActiveIds(toasts') = ActiveIds(toasts)
                /\ last'.events = << >>
                /\ last'.result = SettleResult(outcome)]_vars

(* C37 as amended: if the loading toast of a promise call is dismissed while   *)
(* the work is pending, and no toast with that id is active when the work      *)
(* settles, then the settling leaves the active list as it is and no create or *)
(* update event fires; the call still returns the result or rethrows the       *)
(* failure. A toast created again with the id in the meantime (after           *)
(* clearDismissedHistory) is updated by the settling, with one update event.   *)

C37_DismissedPromiseAmended ==
    [][\A outcome \in {"resolved", "rejected"} :
          (/\ PromiseSettle(outcome)
           /\ pending[1].dismissed)
             => /\ last'.result = SettleResult(outcome)
                /\ IF FindIndex(toasts, pending[1].id) = 0
                   THEN toasts' = toasts /\ last'.events = << >>
                   ELSE /\ ActiveIds(toasts') = ActiveIds(toasts)
                        /\ Len(last'.events) = 1
                        /\ last'.events[1].channel = "update"]_vars

\* the work of a call whose toast was dismissed has settled: the update was tried, no
\* event fired and the id is still in the cache, not in the list
C37_Witness ==
    /\ last.op = "settle"
    /\ last.dismissed
    /\ last.trace # << >>
    /\ last.events = << >>
    /\ CacheHas(dismissedToasts, last.id)
    /\ FindIndex(toasts, last.id) = 0

----------------------------------------------------------------------------
(* The callbacks of a toast the display surface removes *)

\* the toasts whose onDismiss the step that removed a toast has invoked, one entry
\* for each invocation: those of Toaster.handleDismiss, then those of the registry
OnDismissCalls ==
    (IF display.cause.kind = "exit" /\ display.called # Undefined
     THEN <<display.cause.id>> ELSE << >>)
    \o [i \in 1..Len(last.called) |-> last.called[i].arg.id]

\* C31: a toast that has an onDismiss callback and leaves the active list, through
\* dismiss(id), dismiss() or a display surface reacting to a swipe, the close button
\* or the auto-dismiss timeout, has its onDismiss invoked exactly once, with its own
\* data.
C31_OnDismissExactlyOnce ==
    (last.op = "dismiss" /\ display.cause.kind \in {"exit", "dismiss"}) =>
        \A i \in 1..Len(last.called) :
            /\ last.called[i].arg.onDismiss = Some(last.called[i].callback)
            /\ Cardinality({j \in 1..Len(OnDismissCalls) :
                               OnDismissCalls[j] = last.called[i].arg.id}) = 1

\* C32: with pauseOnAppBackground, the countdown of a toast is paused while the app
\* is not active: no timer fires in the background, and a timer fires when the time
\* the toast has spent with the app active equals its effective duration. The toasts
\* looked at are those no registry event has re-rendered since they appeared.
C32_CountdownPausedInBackground ==
    /\ Paused => display.timers = {}
    /\ (/\ display.cause.kind = "timer"
        /\ display.pauseOnAppBackground
        /\ display.cause.quiet)
           => display.cause.active = DurationOf(display.cause.toast)

\* C38: for one displayed toast the display layer calls the registry's dismiss at
\* most once, whatever the interleaving of close button, swipe end and auto-dismiss
\* timeout: a toast has at most one exit timeout pending, and the exit timeout that
\* calls dismiss is the first one of its toast.
C38_SurfaceDismissesOnce ==
    /\ \A e1 \in display.exits : \A e2 \in display.exits : e1.id = e2.id => e1 = e2
    /\ \A e \in display.exits : e.id \notin display.ended
    /\ display.cause.kind = "exit" => ~display.cause.again

\* the auto-dismiss timeout has fired for a toast a close or a swipe was already
\* removing
C38_Witness ==
    /\ display.cause.kind = "timer"
    /\ display.cause.id \in display.exiting
    /\ ~display.cause.fresh
    /\ \E e \in display.exits : e.id = display.cause.id

\* C39: the onAutoClose callback of a toast is invoked at most once, and only when
\* the auto-dismiss timer is what starts the removal of the toast: not for a toast a
\* swipe or the close button was already removing, even when the timer expires
\* during the exit delay.
C39_OnAutoCloseOnlyWhenTimerCloses ==
    (display.cause.kind = "timer" /\ display.cause.onAutoClose # Undefined) =>
        /\ display.cause.fresh
        /\ ~display.cause.again

\* C36: whenever a mounted display surface (useToastState) is idle, its list equals
\* getToasts(), also when a create, update or dismiss happened between its first read
\* of the list and the registration of its three subscriptions.
C36_SurfaceListIsCurrent ==
    (display.mounted /\ display.subscribed) => display.toasts = toasts

\* C40: dismiss(id) and dismiss() terminate when the onDismiss callback of a toast
\* itself calls dismiss, for the same id or for all toasts, and the callback is still
\* invoked only once for the toast.
C40_ReentrantDismissTerminates ==
    last.op = "dismiss" =>
        /\ ~last.thrown
        /\ \A i \in 1..Len(last.called) : \A j \in 1..Len(last.called) :
              last.called[i].arg.id = last.called[j].arg.id => i = j

\* C33: a sequence getToasts returned is a snapshot, in insertion order, that the
\* registry never changes afterwards: no later create, update, dismiss or promise call
\* alters its length, order or element records, and changing the membership of the
\* returned array does not change the active list of the registry.
C33_SnapshotIsACopy ==
    [][/\ last'.op = "getToasts" => display'.held.elems = toasts
       /\ (Holds(display) /\ last'.op \notin {"getToasts", "change"})
             => display'.held.elems = display.held.elems
       /\ last'.op = "change" => toasts' = toasts]_vars

\* a registry call has changed the active list a caller holds a snapshot of, and the
\* caller has then changed the snapshot
C33_Witness ==
    /\ Holds(display)
    /\ last.op = "change"
    /\ toasts # << >>
    /\ display.held.elems # toasts
    /\ \E i \in 1..Len(display.held.elems) : display.held.elems[i].id = toasts[1].id
                                             /\ display.held.elems[i] # toasts[1]

====
